---- MODULE Spec2Model ----
(***************************************************************************)
(* UpUpUp: the worker's check state machine and escalation engine         *)
(* (runner.Runner), the active-hook cache, and the hook_executions table  *)
(* shared with the server's hook manager.                                  *)
(*                                                                         *)
(* Time is counted in whole seconds.  0 stands for the zero time.Time /   *)
(* SQL NULL; the clock starts at 1.  Every store operation succeeds in    *)
(* Spec.  Hook kinds and scopes are configured in canonical lower case,   *)
(* so strings.ToLower / TrimSpace / EqualFold act as the identity on them.*)
(***************************************************************************)
EXTENDS Integers, Sequences, FiniteSets, TLC

\* ---------------------------------------------------------------- bounds
MaxTime == 7
MaxHooks == 2
MaxWindow == 2
LastInvokeAt == 2
MaxRuns == 4
MaxNotifications == 3
MaxUpserts == 2
MaxExecTime == 4
MaxExecutions == 2

\* seconds of server time and readiness requests in one behaviour
MaxReadyTime == 3
MaxRequests == 2

\* check runs and notification rows written while the server is watched
MaxHealthRuns == 2
MaxHealthLogs == 2
MaxHealthRequests == 1
MaxHookRequests == 1
MaxIngestRequests == 2
MaxTickTime == 4
MaxFetches == 2

\* ------------------------------------------------------ program constants
CacheTTL == 5
DefaultWindow == 10
FallbackMaxDuration == 86400
DefaultCheckStateRetention == 30
DefaultNotificationRetention == 100

\* ------------------------------------------------------------ configuration
Checks == {"c1"}

\* config.CheckConfig: notification route and initial-notifier override
CheckConfig ==
    [c \in Checks |->
        [ID |-> c, Route |-> "r1", InitialNotifiers |-> <<"n_init">>]]

\* config.NotificationPolicy: ordered stages; Every = 0 is "unset or 0"
Policies ==
    [r \in {"r1", "r2"} |->
        IF r = "r1"
        THEN [Stages |-> << [After |-> 1, Every |-> 0,
                             Notifiers |-> <<"n_a">>],
                            [After |-> 1, Every |-> 2,
                             Notifiers |-> <<"n_b">>] >>,
              ResolveNotifiers |-> <<"n_res">>]
        ELSE [Stages |-> <<>>, ResolveNotifiers |-> <<>>]]

NoDuration == [Set |-> FALSE, Duration |-> 0]

\* config.HookConfig.Action of the server's hooks section
HookConfigs ==
    [h \in {"pause-c1", "pause-all", "pause-c2", "resume-c1", "resume-r2"} |->
        CASE h = "pause-c1" ->
               [Kind |-> "pause_notifications", Scope |-> "check",
                TargetIDs |-> <<"c1">>, UntilFirstSuccess |-> TRUE,
                Duration |-> [Set |-> TRUE, Duration |-> 1],
                MaxDuration |-> [Set |-> TRUE, Duration |-> 2]]
          [] h = "pause-all" ->
               [Kind |-> "pause_notifications", Scope |-> "global",
                TargetIDs |-> <<>>, UntilFirstSuccess |-> FALSE,
                Duration |-> NoDuration, MaxDuration |-> NoDuration]
          [] h = "pause-c2" ->
               [Kind |-> "pause_notifications", Scope |-> "check",
                TargetIDs |-> <<"c2">>, UntilFirstSuccess |-> FALSE,
                Duration |-> NoDuration, MaxDuration |-> NoDuration]
          [] h = "resume-c1" ->
               [Kind |-> "resume_notifications", Scope |-> "check",
                TargetIDs |-> <<"c1">>, UntilFirstSuccess |-> FALSE,
                Duration |-> NoDuration, MaxDuration |-> NoDuration]
          [] OTHER ->
               [Kind |-> "resume_notifications", Scope |-> "route",
                TargetIDs |-> <<"r2">>, UntilFirstSuccess |-> FALSE,
                Duration |-> NoDuration, MaxDuration |-> NoDuration]]

\* hooks.InvokeOptions (UntilFirstSuccess is a *bool: "nil", "true", "false")
NoOptions == [DurationOverride |-> NoDuration, UntilFirstSuccess |-> "nil"]

\* the requests POST /api/hook/{hookID} of the model
Requests ==
    { [hookID |-> h, opts |-> NoOptions] : h \in DOMAIN HookConfigs }

\* storage.Options: retention 0 selects the defaults
NoStoreOptions == [CheckStateRetention |-> 0, NotificationRetention |-> 0]

StoreOptionSet ==
    { NoStoreOptions,
      [CheckStateRetention |-> 1, NotificationRetention |-> 2],
      [CheckStateRetention |-> 2, NotificationRetention |-> 1] }

\* the check ids and the node ids the store is called with
StoreChecks == {"c1", "c2"}

Nodes == {"n1", "n2"}

\* the statement of a store call that fails ("none": the call succeeds)
TxFaults == {"none", "begin", "insert", "prune", "commit"}

ExecFaults == {"none", "exec"}

\* server configurations: the scrape-config path, the scrape targets and the
\* listen address
ServerConfigs ==
    { [Prometheus |-> [ConfigPath |-> p, Targets |-> t], Listen |-> l] :
        p \in {"", " ", "/p"}, t \in {<<>>, <<"t1">>, <<" ">>, <<"t1", "t1">>},
        l \in {"", ":8080"} }

NoServerConfig ==
    [Prometheus |-> [ConfigPath |-> "", Targets |-> <<>>], Listen |-> ""]

\* server.health as configured; 0 and <<>> are the unset values: all
\* unset, a strict one and a lenient one
HealthConfigs ==
    { [MaxIntervalMultiplier |-> 0, RequiredRecentRuns |-> 0,
       NotificationErrorLookback |-> 0, NotificationErrorStatuses |-> <<>>,
       SkipChecksWithNoHistory |-> FALSE, FailOnMissingCheckState |-> FALSE,
       AllowNoNotifications |-> FALSE],
      [MaxIntervalMultiplier |-> 1, RequiredRecentRuns |-> 2,
       NotificationErrorLookback |-> 1,
       NotificationErrorStatuses |-> <<" Firing">>,
       SkipChecksWithNoHistory |-> FALSE, FailOnMissingCheckState |-> TRUE,
       AllowNoNotifications |-> TRUE],
      [MaxIntervalMultiplier |-> 1, RequiredRecentRuns |-> 0,
       NotificationErrorLookback |-> 0,
       NotificationErrorStatuses |-> <<" Firing">>,
       SkipChecksWithNoHistory |-> TRUE, FailOnMissingCheckState |-> FALSE,
       AllowNoNotifications |-> TRUE] }

\* server.allowed_ips and server.trusted_proxies left empty, no hooks
NoAccess == [AllowedIPs |-> <<>>, TrustedProxies |-> <<>>]

AppConfigs ==
    { [Health |-> h, Server |-> NoAccess, Hooks |-> <<>>] :
        h \in HealthConfigs }

\* cfg.Checks of the server, in configuration order, with schedule.interval
\* (Set = FALSE: no override), and service.defaults.interval (0: unset)
ServerChecks == <<"c1", "c2">>

ServerCheckIDs == {ServerChecks[i] : i \in DOMAIN ServerChecks}

ServerInterval ==
    [c \in ServerCheckIDs |->
        IF c = "c1" THEN [Set |-> TRUE, Duration |-> 1]
        ELSE [Set |-> FALSE, Duration |-> 0]]

ServerDefaultInterval == 0

\* the query of the health evaluation that fails, and for which check
HealthFaults ==
    { [op |-> "none", check |-> ""], [op |-> "ping", check |-> ""],
      [op |-> "logs", check |-> ""] }
    \cup { [op |-> o, check |-> c] :
             o \in {"latest", "count"}, c \in ServerCheckIDs }

NoAppConfig ==
    [Health |-> [MaxIntervalMultiplier |-> 0, RequiredRecentRuns |-> 0,
                 NotificationErrorLookback |-> 0,
                 NotificationErrorStatuses |-> <<>>,
                 SkipChecksWithNoHistory |-> FALSE,
                 FailOnMissingCheckState |-> FALSE,
                 AllowNoNotifications |-> FALSE],
     Server |-> NoAccess, Hooks |-> <<>>]

\* time.Duration is counted in units of 1/16 s and kept in DurationBits
\* bits (two's complement), so that 24h fits and a product can overflow
Second == 16

DurationBits == 24

\* the addresses of the model: a reverse proxy, a client and a stranger
ProxyIP == "10.0.0.10"

ClientIP == "203.0.113.5"

StrangerIP == "198.51.100.7"

IPs == {ProxyIP, ClientIP, StrangerIP}

\* the hooks section of the server: a capped hook with its own allowlist,
\* a hook with nothing configured, a hook with max_duration: 0s
ServerHooks ==
    << [ID |-> "pause-capped", AllowedIPs |-> <<"203.0.113.5">>,
        Kind |-> "pause_notifications", Scope |-> "check",
        TargetIDs |-> <<"c1">>, UntilFirstSuccess |-> TRUE,
        Duration |-> [Set |-> TRUE, Duration |-> 3 * Second],
        MaxDuration |-> [Set |-> TRUE, Duration |-> 2 * Second]],
       [ID |-> "pause-open", AllowedIPs |-> <<>>,
        Kind |-> "pause_notifications", Scope |-> "global",
        TargetIDs |-> <<>>, UntilFirstSuccess |-> FALSE,
        Duration |-> NoDuration, MaxDuration |-> NoDuration],
       [ID |-> "pause-nomax", AllowedIPs |-> <<" ">>,
        Kind |-> "pause_notifications", Scope |-> "check",
        TargetIDs |-> <<"c2">>, UntilFirstSuccess |-> FALSE,
        Duration |-> [Set |-> TRUE, Duration |-> Second],
        MaxDuration |-> [Set |-> TRUE, Duration |-> 0]] >>

\* server configurations of the access model: allowed_ips and
\* trusted_proxies, each empty or not
AccessConfigs ==
    { [Health |-> NoAppConfig.Health,
       Server |-> [AllowedIPs |-> a, TrustedProxies |-> t],
       Hooks |-> ServerHooks] :
        a \in {<<>>, <<"203.0.113.5">>, <<" ", "203.0.113.0/24">>},
        t \in {<<>>, <<"10.0.0.0/8">>} }

\* the X-Forwarded-For headers of the model, split at the commas (<<>>: no
\* header), and the values of True-Client-IP and X-Real-IP ("": no header)
ForwardedFors ==
    { <<>>, <<"203.0.113.5">>, <<"bogus", " 203.0.113.5", "10.0.0.10">>,
      <<"198.51.100.7", "203.0.113.5">> }

RealIPHeaders == {"", "203.0.113.5"}

\* the JSON bodies of POST /api/hook/{hookID}: duration ("" when absent),
\* duration_seconds
\* (Set = FALSE: absent) and until_first_success ("nil" when absent); one
\* body is not JSON
HookPayloads ==
    { [Valid |-> TRUE, Duration |-> d, DurationSeconds |-> n,
       UntilFirstSuccess |-> u] :
        d \in {"", "1s", "48h", "-1s", "bad"},
        n \in { [Set |-> FALSE, Value |-> 0] }
               \cup { [Set |-> TRUE, Value |-> v] :
                        v \in {0, 1, 180000, 600000, -5} },
        u \in {"nil", "true", "false"} }
    \cup { [Valid |-> FALSE, Duration |-> "",
            DurationSeconds |-> [Set |-> FALSE, Value |-> 0],
            UntilFirstSuccess |-> "nil"] }

\* POST /api/ingest/{nodeID}: the node id of the URL, the Content-Encoding
\* header and the body (Raw: its bytes, "gz:" + text standing for the gzip
\* stream of text; Bytes: its length)
IngestBodies ==
    { [Raw |-> raw, Bytes |-> 8] :
        raw \in {"up 1", " up 0 ", " ", "gz:up 1", "gz: "} }
    \cup { [Raw |-> "", Bytes |-> 0],
           [Raw |-> "up 1", Bytes |-> 2 * 1024 * 1024],
           [Raw |-> "up 1", Bytes |-> 2 * 1024 * 1024 + 1],
           [Raw |-> "gz:up 1", Bytes |-> 2 * 1024 * 1024 + 1] }

ContentEncodings == {"", "identity", "gzip", " GZIP ", "br"}

IngestRequests ==
    { [RemoteAddr |-> [host |-> peer, port |-> "12345"],
       XForwardedFor |-> <<>>, XRealIP |-> "", TrueClientIP |-> "",
       nodeID |-> n, ContentEncoding |-> e, Body |-> b] :
        peer \in {ClientIP, StrangerIP}, n \in {"n1", " n1 ", "n2", " "},
        e \in ContentEncodings, b \in IngestBodies }

\* the checks of the ticker model, their schedule.interval (unset, 0s, 1s,
\* 2s) and service.defaults.interval (0: unset)
TickChecks == {"c1", "c2"}

NoSchedule == [c \in TickChecks |-> NoDuration]

Schedules ==
    [TickChecks -> {NoDuration} \cup { [Set |-> TRUE, Duration |-> d] :
                                         d \in {0, 1, 2} }]

DefaultIntervals == {0, 2, 3}

\* the body without any field
NoPayload ==
    [Valid |-> TRUE, Duration |-> "",
     DurationSeconds |-> [Set |-> FALSE, Value |-> 0],
     UntilFirstSuccess |-> "nil"]

HookRequest(peer, xff, xr, h, b) ==
    [RemoteAddr |-> [host |-> peer, port |-> "12345"],
     XForwardedFor |-> xff, XRealIP |-> xr, TrueClientIP |-> "",
     hookID |-> h, payload |-> b]

HookIDs == {"pause-capped", "pause-open", "pause-nomax", "unknown"}

\* the requests of the access model: every peer and header with an empty
\* body, and every body sent by the client directly
HookRequests ==
    { HookRequest(peer, xff, xr, h, NoPayload) :
        peer \in IPs, xff \in ForwardedFors, xr \in RealIPHeaders,
        h \in HookIDs }
    \cup { HookRequest(ClientIP, <<>>, "", h, b) :
             h \in HookIDs, b \in HookPayloads }

\* what can go wrong in generatePrometheusConfig: yaml.Marshal, MkdirAll,
\* WriteFile, the first os.Rename alone, the first os.Rename and os.Remove,
\* both os.Rename calls
GenFaults ==
    {"none", "marshal", "mkdir", "write", "rename", "rename_remove",
     "rename_rename"}

\* the snapshots handed to UpsertNodeMetrics; IngestedAt 0 is the zero time
Snapshots ==
    { [NodeID |-> n, Payload |-> p, IngestedAt |-> a, SourceIP |-> ""] :
        n \in {"n1", " n1 ", "n2", ""}, p \in {"up 1", "up 0", " "},
        a \in {0, 5} }

\* the checks of the scheduler model: c1 as above, c2 on the route without
\* notifiers
ExecChecks == {"c1", "c2"}

ExecCheckConfig ==
    [c \in ExecChecks |->
        IF c = "c1" THEN CheckConfig["c1"]
        ELSE [ID |-> c, Route |-> "r2", InitialNotifiers |-> <<>>]]

\* schedule.retries and schedule.interval of the checks
Retries == [c \in ExecChecks |-> IF c = "c1" THEN 1 ELSE 0]

Interval == [c \in ExecChecks |-> IF c = "c1" THEN 1 ELSE 2]

ExecFailureRatio == [Set |-> TRUE, Window |-> 1, FailCount |-> 1]

\* service.defaults.maintenance_windows after parseMaintenance: a range
\* [start, end) and a cron schedule firing at phase + k * period
MaintenanceWindows ==
    << [kind |-> "range", start |-> 4, end |-> 5,
        phase |-> 0, period |-> 1, duration |-> 0],
       [kind |-> "cron", start |-> 0, end |-> 0,
        phase |-> 3, period |-> 4, duration |-> 1] >>

\* thresholds.failure_ratio of a check; Set = FALSE is a nil pointer
FailureRatios ==
    { [Set |-> TRUE, Window |-> w, FailCount |-> k] :
        w \in 1..MaxWindow, k \in 1..MaxWindow }

VARIABLES
    now,              \* wall clock, seconds
    failureRatio,     \* check id -> thresholds.failure_ratio (immutable)
    state,            \* Runner.state: check id -> checkState
    hooks,            \* table hook_executions, row id = index
    hookCache,        \* Runner.hookCache
    hookCacheExpiry,  \* Runner.hookCacheExpiry (0 = zero time)
    cacheLoadedAt,    \* when hookCache was last read from the store
    outcomes,         \* check id -> the last MaxWindow outcomes fed in
    episode,          \* check id -> dispatch bookkeeping of the episode
    ev,               \* the updates made by the last step (0 or 1)
    sent,             \* the dispatches made by the last step
    fetches,          \* the fetchActiveHooks calls of the last step
    obs               \* the activePauseHooks calls of the last step

runnerVars == <<now, failureRatio, state, hooks, hookCache, hookCacheExpiry,
                cacheLoadedAt, outcomes, episode, ev, sent, fetches, obs>>

VARIABLES
    storeOptions,       \* storage.Options handed to Open
    checkStateLimit,    \* Store.checkStateLimit
    notificationLimit,  \* Store.notificationLimit
    check_states,       \* table check_states: [rows, seq]
    notification_logs,  \* table notification_logs: [rows, seq]
    node_metrics,       \* table node_metrics: sequence of rows
    inserted,           \* check id -> ids of its committed runs, in order
    upserts,            \* node id -> the snapshots committed for it, in order
    lastOp              \* the store call made by the last step

storeVars == <<storeOptions, checkStateLimit, notificationLimit,
               check_states, notification_logs, node_metrics, inserted,
               upserts, lastOp>>

VARIABLES
    cancelled,     \* the context handed to Start is done
    startPc,       \* Start: "ctx" (<-ctx.Done), "wg" (wg.Wait), "returned"
    loopPc,        \* check id -> runCheckLoop: "init", "loop", "exited"
    calls,         \* check id -> executeCheck calls in progress
    execPc,        \* check id -> position inside executeCheck
    attempt,       \* check id -> attempt counter of the retry loop
    result,        \* check id -> Success of the last attempt
    pending,       \* check id -> dispatches handleResult still has to make
    dispatchPc,    \* check id -> position inside one iteration of dispatch
    ticker,        \* check id -> a tick is waiting in ticker.C
    runNo,         \* check id -> executions started so far
    persistedRun,  \* check id -> [run, row]: the last run persisted
    updatedRun,    \* check id -> the last run fed to handleResult
    observed,      \* check id -> the loop has seen ctx.Done
    notifying,     \* the notifier goroutines started and not yet finished
    lastNotify,    \* the notifier call that finished last
    logErr,        \* the notifier calls whose recordNotification failed
    storeFaults    \* the outcomes a store write of the runner can have

execVars == <<cancelled, startPc, loopPc, calls, execPc, attempt, result,
              pending, dispatchPc, ticker, runNo, persistedRun, updatedRun,
              observed, notifying, lastNotify, logErr, storeFaults>>

\* the server App: the scrape-config status behind the readiness endpoint
VARIABLES
    metricsCfg,         \* App.metricsCfg: ConfigPath and Targets
    listen,             \* cfg.Server.Listen
    appPc,              \* "new", or "started" after initialisePrometheusConfig
    promConfigPath,     \* App.promConfigPath
    promConfigAt,       \* App.promConfigAt; 0 is the zero time
    promConfigTargets,  \* App.promConfigTargets
    promConfigErr,      \* App.promConfigErr; "" is nil
    disk,               \* what is at the config path and at path.tmp
    generated,          \* generatePrometheusConfig has returned without error
    readyNow,           \* wall clock of the server
    served,             \* readiness requests answered
    response            \* the last readiness response

readyVars == <<metricsCfg, listen, appPc, promConfigPath, promConfigAt,
               promConfigTargets, promConfigErr, disk, generated, readyNow,
               served, response>>

\* the server App: its configuration
VARIABLES
    healthCfg,          \* App.healthCfg, after applyHealthDefaults
    allowlist,          \* App.allowlist
    trustedProxies,     \* App.trustedProxies
    hookConfigs,        \* App.hookConfigs: hook id -> its configuration
    hookAllowlist,      \* App.hookAllowlist: hook id -> its allowlist
    request             \* the request served last (<<>>: none yet)

serverVars == <<healthCfg, allowlist, trustedProxies, hookConfigs,
                hookAllowlist, request>>

\* the worker's check loops and their tickers
VARIABLES
    schedule,      \* check id -> check.Schedule.Interval (Set = FALSE: nil)
    defaults,      \* Runner.defaults.Interval.Duration
    wallClock,     \* the time of the worker process
    workerPc,      \* check id -> runCheckLoop: "start", "loop", "panic"
    loopTicker,    \* check id -> [period, since] of the loop's time.Ticker
    executed,      \* check id -> the times of its executeCheck calls
    obsPc,         \* check id -> "idle", "complete" (CompleteHookExecution
                   \* calls to make), "invalidate" (invalidateHookCache next)
    work,          \* check id -> ids of the hooks still to complete
    seen,          \* check id -> ids its last fetchActiveHooks returned
    fetchNo        \* check id -> fetchActiveHooks calls made so far

\* one evaluation of hookMatchesCheck
VARIABLES
    matchHook,     \* the hook of the evaluation: [Scope, TargetIDs]
    matchCheck,    \* the check of the evaluation: [ID, Route]
    matched        \* <<>> before the call, <<result>> after it

matchVars == <<matchHook, matchCheck, matched>>

\* one call of a function of the worker or the server
VARIABLES
    callArgs,      \* the arguments of the call
    callResult     \* <<>> before the call, then what each call returned

callVars == <<callArgs, callResult>>

\* the store as the worker's hook query finds it
VARIABLES
    hookQueryErr,  \* Store.ActiveHookExecutions returns an error at present
    completeErr    \* the ids Store.CompleteHookExecution returns an error for

faultVars == <<hookQueryErr, completeErr>>

tickVars == <<schedule, defaults, wallClock, workerPc, loopTicker, executed,
              obsPc, work, seen, fetchNo, matchVars, callVars, faultVars>>

vars == <<runnerVars, storeVars, execVars, readyVars, serverVars, tickVars>>

\* ------------------------------------------------------------------ helpers
Last(s) == s[Len(s)]

Suffix(s, n) == SubSeq(s, Len(s) - n + 1, Len(s))

Range(s) == {s[i] : i \in DOMAIN s}

Min(a, b) == IF a < b THEN a ELSE b

RECURSIVE CountTrue(_)
CountTrue(s) ==
    IF s = <<>> THEN 0
    ELSE (IF s[1] THEN 1 ELSE 0) + CountTrue(Tail(s))

\* strings.TrimSpace on the identifiers and payloads of the model
TrimSpace(x) ==
    CASE x = " n1 " -> "n1"
      [] x = " " -> ""
      [] x = " Firing" -> "Firing"
      [] x = " 203.0.113.5" -> "203.0.113.5"
      [] x = " up 0 " -> "up 0"
      [] x = " GZIP " -> "GZIP"
      [] x = " c1 " -> "c1"
      [] x = " Global " -> "Global"
      [] OTHER -> x

\* strings.ToLower on the notification statuses of the model
ToLower(x) ==
    CASE x = "Firing" -> "firing"
      [] x = "GZIP" -> "gzip"
      [] x = "Global" -> "global"
      [] OTHER -> x

\* ------------------------------------------- server: hooks.Manager.Invoke
\* configured duration, overridden by the request, clamped to [0, max]
resolveDuration(hookCfg, opts, fallbackMax) ==
    LET d0 == IF hookCfg.Duration.Set THEN hookCfg.Duration.Duration ELSE 0
        d1 == IF opts.DurationOverride.Set
              THEN opts.DurationOverride.Duration ELSE d0
        maxDuration == IF hookCfg.MaxDuration.Set
                       THEN hookCfg.MaxDuration.Duration ELSE fallbackMax
        d2 == IF maxDuration > 0 /\ d1 > maxDuration THEN maxDuration ELSE d1
    IN  IF d2 < 0 THEN 0 ELSE d2

\* variant: the request's until_first_success always wins
untilFirstSuccess_requestWins(hookCfg, opts) ==
    IF opts.UntilFirstSuccess = "nil" THEN hookCfg.UntilFirstSuccess
    ELSE opts.UntilFirstSuccess = "true"

\* Manager.Invoke: the flag of the configuration, replaced by the request's
\* unless that would relax it
untilFirstSuccess(hookCfg, opts) ==
    IF opts.UntilFirstSuccess = "nil" THEN hookCfg.UntilFirstSuccess
    ELSE IF hookCfg.UntilFirstSuccess /\ opts.UntilFirstSuccess = "false"
         THEN hookCfg.UntilFirstSuccess
         ELSE opts.UntilFirstSuccess = "true"

\* the row Manager.Invoke builds from the configuration hookCfg of hook
\* hookID at time t (ActiveUntil 0: not valid, NULL)
buildExecution(hookCfg, hookID, opts, t, fallbackMax) ==
    LET duration == resolveDuration(hookCfg, opts, fallbackMax)
        untilFirst == untilFirstSuccess(hookCfg, opts)
    IN  [HookID |-> hookID,
         Kind |-> hookCfg.Kind,
         Scope |-> hookCfg.Scope,
         TargetIDs |-> hookCfg.TargetIDs,
         RequestedAt |-> t,
         ActiveUntil |-> IF duration > 0 THEN t + duration ELSE 0,
         UntilFirstSuccess |-> untilFirst,
         Status |-> "active"]

\* the row Manager.Invoke builds for hook hookID requested at time t
InvokeRow(hookID, opts, t) ==
    buildExecution(HookConfigs[hookID], hookID, opts, t, FallbackMaxDuration)

\* variant: the insert replaces the row of the same hook (an upsert by hook_id)
InsertHookExecution_upsert(table, exec) ==
    IF \E i \in DOMAIN table : table[i].HookID = exec.HookID
    THEN [i \in DOMAIN table |->
            IF table[i].HookID = exec.HookID
            THEN exec @@ [ID |-> table[i].ID] ELSE table[i]]
    ELSE Append(table, exec @@ [ID |-> Len(table) + 1])

\* Store.InsertHookExecution: AUTOINCREMENT id, status defaults to active
InsertHookExecution(table, exec) ==
    Append(table,
           [exec EXCEPT !.Status = IF exec.Status = "" THEN "active"
                                   ELSE exec.Status]
             @@ [ID |-> Len(table) + 1])

\* -------------------------------------------- worker: storage.Store (hooks)
\* variant: the query forgets the active_until bound
ActiveHookExecutions_noExpiry(table, t) ==
    SelectSeq(table, LAMBDA row : row.Status = "active")

\* SELECT ... WHERE status = 'active' AND
\*   (active_until IS NULL OR active_until >= now)
ActiveHookExecutions(table, t) ==
    SelectSeq(table,
              LAMBDA row : row.Status = "active"
                           /\ (row.ActiveUntil = 0 \/ row.ActiveUntil >= t))

\* UPDATE ... SET status = 'completed' WHERE id = ? AND status = 'active'
CompleteHookExecution(table, id) ==
    [i \in DOMAIN table |->
        IF table[i].ID = id /\ table[i].Status = "active"
        THEN [table[i] EXCEPT !.Status = "completed"]
        ELSE table[i]]

RECURSIVE CompleteAll(_, _)
CompleteAll(table, ids) ==
    IF ids = <<>> THEN table
    ELSE CompleteAll(CompleteHookExecution(table, ids[1]), Tail(ids))

\* --------------------------------------------------- worker: hook matching
\* targetMatches: some target, trimmed and not blank, is "*" or the
\* candidate
targetMatches(targets, candidate) ==
    /\ Len(targets) > 0
    /\ \E i \in DOMAIN targets :
          /\ TrimSpace(targets[i]) # ""
          /\ \/ TrimSpace(targets[i]) = "*"
             \/ (candidate # "" /\ TrimSpace(targets[i]) = candidate)

\* variant: a route-scoped hook is matched against the check id
hookMatchesCheck_routeByID(hook, check) ==
    LET scope == ToLower(TrimSpace(hook.Scope))
    IN  CASE scope = "global" ->
               IF Len(hook.TargetIDs) = 0 THEN TRUE
               ELSE targetMatches(hook.TargetIDs, "*")
                    \/ targetMatches(hook.TargetIDs, check.ID)
          [] OTHER -> targetMatches(hook.TargetIDs, check.ID)

\* hookMatchesCheck: the switch on the trimmed, lower-cased scope
hookMatchesCheck(hook, check) ==
    LET scope == ToLower(TrimSpace(hook.Scope))
    IN  CASE scope = "global" ->
               IF Len(hook.TargetIDs) = 0 THEN TRUE
               ELSE targetMatches(hook.TargetIDs, "*")
                    \/ targetMatches(hook.TargetIDs, check.ID)
          [] scope = "check" -> targetMatches(hook.TargetIDs, check.ID)
          [] scope = "route" -> targetMatches(hook.TargetIDs, check.Route)
          [] OTHER -> targetMatches(hook.TargetIDs, check.ID)

\* variant: equal scopes alone do not make two hooks overlap
hooksOverlap_noScope(resume, pause) ==
    \/ targetMatches(resume.TargetIDs, "*")
    \/ targetMatches(pause.TargetIDs, "*")
    \/ (Len(resume.TargetIDs) = 0 /\ resume.Scope = "global")
    \/ \E i \in DOMAIN resume.TargetIDs :
          /\ resume.TargetIDs[i] # ""
          /\ targetMatches(pause.TargetIDs, resume.TargetIDs[i])
    \/ resume.Scope = "global"
    \/ pause.Scope = "global"

hooksOverlap(resume, pause) ==
    \/ targetMatches(resume.TargetIDs, "*")
    \/ targetMatches(pause.TargetIDs, "*")
    \/ (Len(resume.TargetIDs) = 0 /\ resume.Scope = "global")
    \/ \E i \in DOMAIN resume.TargetIDs :
          /\ resume.TargetIDs[i] # ""
          /\ targetMatches(pause.TargetIDs, resume.TargetIDs[i])
    \/ resume.Scope = "global"
    \/ pause.Scope = "global"
    \/ resume.Scope = pause.Scope

\* ----------------------------------------------- worker: active-hook cache
\* The hook side of the runner is passed around as a record
\*   [store, queryErr, cache, expiry, loadedAt, fetches, obs];
\* completeErr, the rows whose completion fails, is read where it is used.
HookSide ==
    [store |-> hooks, queryErr |-> hookQueryErr, cache |-> hookCache,
     expiry |-> hookCacheExpiry, loadedAt |-> cacheLoadedAt,
     fetches |-> <<>>, obs |-> <<>>]

IDs(rows) == {rows[i].ID : i \in DOMAIN rows}

\* variant: a failed query is not cached, the next call asks the store
\* again
loadActiveHooks_errorNotCached(h, t) ==
    LET loaded == ActiveHookExecutions(h.store, t)
    IN  IF h.queryErr
        THEN [h |-> [h EXCEPT !.fetches =
                        Append(@, [at |-> t, loadedAt |-> t, ids |-> {}])],
              hooks |-> <<>>]
        ELSE [h |-> [h EXCEPT !.cache = loaded,
                              !.expiry = t + CacheTTL,
                              !.loadedAt = t,
                              !.fetches =
                                 Append(@, [at |-> t, loadedAt |-> t,
                                            ids |-> IDs(loaded)])],
              hooks |-> loaded]

\* fetchActiveHooks past the cache: the store's answer, or nil when the
\* query fails, cached for CacheTTL either way
loadActiveHooks(h, t) ==
    LET loaded == IF h.queryErr THEN <<>>
                  ELSE ActiveHookExecutions(h.store, t)
    IN  [h |-> [h EXCEPT !.cache = loaded,
                         !.expiry = t + CacheTTL,
                         !.loadedAt = t,
                         !.fetches =
                            Append(@, [at |-> t, loadedAt |-> t,
                                       ids |-> IDs(loaded)])],
         hooks |-> loaded]

\* variant: the cached snapshot is still served at the expiry instant
fetchActiveHooks_atExpiry(h, t) ==
    IF h.expiry # 0 /\ t <= h.expiry
    THEN [h |-> [h EXCEPT !.fetches =
                    Append(@, [at |-> t, loadedAt |-> h.loadedAt,
                               ids |-> IDs(h.cache)])],
          hooks |-> h.cache]
    ELSE loadActiveHooks(h, t)

\* returns [h, hooks]: the cached snapshot while now is before the expiry,
\* else the store's answer, cached for CacheTTL
fetchActiveHooks(h, t) ==
    IF h.expiry # 0 /\ t < h.expiry
    THEN [h |-> [h EXCEPT !.fetches =
                    Append(@, [at |-> t, loadedAt |-> h.loadedAt,
                               ids |-> IDs(h.cache)])],
          hooks |-> h.cache]
    ELSE loadActiveHooks(h, t)

invalidateHookCache(h) ==
    [h EXCEPT !.cache = <<>>, !.expiry = 0, !.loadedAt = 0]

\* the ids of rows, in order
IDSeq(rows) == [i \in DOMAIN rows |-> rows[i].ID]

\* the CompleteHookExecution calls of applyResumeHooks that go through:
\* the pause hooks a resume hook overlaps, and the resume hooks
completable(resumeHooks, pauseHooks) ==
    SelectSeq(SelectSeq(pauseHooks,
                        LAMBDA p : \E i \in DOMAIN resumeHooks :
                                       hooksOverlap(resumeHooks[i], p))
                  \o resumeHooks,
              LAMBDA x : x.ID \notin completeErr)

\* variant: a resume hook counts as applied although its completion
\* failed
completeRows_changedOnError(h, done) ==
    [h |-> invalidateHookCache(
              [h EXCEPT !.store = CompleteAll(@, IDSeq(done))]),
     changed |-> TRUE]

\* changed, and with it the invalidation of the cache, takes a completion
\* that went through
completeRows(h, done) ==
    IF Len(done) = 0 THEN [h |-> h, changed |-> FALSE]
    ELSE [h |-> invalidateHookCache(
                   [h EXCEPT !.store = CompleteAll(@, IDSeq(done))]),
          changed |-> TRUE]

\* completes every pause hook a resume hook overlaps, then the resume hook;
\* a completion that fails is logged and changes nothing; returns
\* [h, changed]
applyResumeHooks(h, resumeHooks, pauseHooks) ==
    IF Len(resumeHooks) = 0 THEN [h |-> h, changed |-> FALSE]
    ELSE completeRows(h, completable(resumeHooks, pauseHooks))

\* one call of activePauseHooks up to its recursive call, as a check loop
\* runs it step by step; returns [h, again, hooks, snapshot]: again when
\* the call calls itself
activePauseHooksRound(h, t) ==
    LET f == fetchActiveHooks(h, t)
        pauseHooks == SelectSeq(f.hooks,
                         LAMBDA x : x.Kind = "pause_notifications")
        resumeHooks == SelectSeq(f.hooks,
                         LAMBDA x : x.Kind = "resume_notifications")
        a == applyResumeHooks(f.h, resumeHooks, pauseHooks)
    IN  IF Len(f.hooks) = 0
        THEN [h |-> f.h, again |-> FALSE, hooks |-> <<>>,
              snapshot |-> f.hooks]
        ELSE IF a.changed
        THEN [h |-> a.h, again |-> TRUE, hooks |-> <<>>,
              snapshot |-> f.hooks]
        ELSE [h |-> a.h, again |-> FALSE, hooks |-> pauseHooks,
              snapshot |-> f.hooks]

\* returns [h, hooks]: the pause hooks of the snapshot once no resume hook
\* is left to apply
RECURSIVE activePauseHooksRec(_, _)
activePauseHooksRec(h, t) ==
    LET f == fetchActiveHooks(h, t)
        pauseHooks == SelectSeq(f.hooks,
                         LAMBDA x : x.Kind = "pause_notifications")
        resumeHooks == SelectSeq(f.hooks,
                         LAMBDA x : x.Kind = "resume_notifications")
        a == applyResumeHooks(f.h, resumeHooks, pauseHooks)
    IN  IF Len(f.hooks) = 0 THEN [h |-> f.h, hooks |-> <<>>]
        ELSE IF a.changed THEN activePauseHooksRec(a.h, t)
        ELSE [h |-> a.h, hooks |-> pauseHooks]

activePauseHooks(h, t) ==
    LET r == activePauseHooksRec(h, t)
        first == r.h.fetches[Len(h.fetches) + 1]
    IN  [h |-> [r.h EXCEPT !.obs =
                   Append(@, [at |-> t, snapshot |-> first.ids,
                              returned |-> IDs(r.hooks)])],
         hooks |-> r.hooks]

applicablePauseHooks(h, t, check) ==
    LET a == activePauseHooks(h, t)
    IN  [h |-> a.h,
         hooks |-> SelectSeq(a.hooks,
                     LAMBDA x : x.Kind = "pause_notifications"
                                /\ hookMatchesCheck(x, check))]

\* ------------------------------------------- worker: check state machine
NoStageState == [Sent |-> FALSE, LastSent |-> 0]

StageIdx(check) == DOMAIN Policies[check.Route].Stages

\* Runner.getState: the state created on first use
NewCheckState(check) ==
    [history |-> <<>>, Failing |-> FALSE, FirstFailure |-> 0,
     StageState |-> [i \in StageIdx(check) |-> NoStageState],
     InitialNotified |-> FALSE, LastUpdated |-> 0]

appendHistory(history, failed, max) ==
    LET h == Append(history, failed)
    IN  IF max > 0 /\ Len(h) > max THEN Suffix(h, max) ELSE h

windowSize(fr) ==
    IF fr.Set /\ fr.Window > 0 THEN fr.Window ELSE DefaultWindow

\* variant: the threshold is breached only above fail_count
thresholdBreached_above(fr, history) ==
    IF Len(history) = 0 THEN FALSE
    ELSE IF ~fr.Set THEN Last(history)
    ELSE LET window == IF fr.Window <= 0 \/ fr.Window > Len(history)
                       THEN Len(history) ELSE fr.Window
         IN  CountTrue(Suffix(history, window)) > fr.FailCount

thresholdBreached(fr, history) ==
    IF Len(history) = 0 THEN FALSE
    ELSE IF ~fr.Set THEN Last(history)
    ELSE LET window == IF fr.Window <= 0 \/ fr.Window > Len(history)
                       THEN Len(history) ELSE fr.Window
         IN  CountTrue(Suffix(history, window)) >= fr.FailCount

\* Runner.dispatch of one event to a notifier list
Dispatch(kind, stage, status, ids) ==
    [kind |-> kind, stage |-> stage, status |-> status, ids |-> ids]

\* the send* operators work on r = [st, h, out, paused]: the check state,
\* the hook side, the dispatches made so far and whether the escalation
\* pass was skipped for a pause hook
\* variant: the dispatch is not remembered in InitialNotified
sendInitialNotifications_unmarked(check, r, t) ==
    IF Len(check.InitialNotifiers) = 0 THEN r
    ELSE IF r.st.InitialNotified THEN r
    ELSE LET p == applicablePauseHooks(r.h, t, check)
         IN  IF Len(p.hooks) > 0 THEN [r EXCEPT !.h = p.h]
             ELSE [r EXCEPT
                     !.h = p.h,
                     !.out = Append(@, Dispatch("initial", 0, "firing",
                                                check.InitialNotifiers))]

\* variant: initial notifiers skipped for a pause hook count as sent
sendInitialNotifications_dropped(check, r, t) ==
    IF Len(check.InitialNotifiers) = 0 THEN r
    ELSE IF r.st.InitialNotified THEN r
    ELSE LET p == applicablePauseHooks(r.h, t, check)
         IN  IF Len(p.hooks) > 0
             THEN [r EXCEPT !.h = p.h, !.st.InitialNotified = TRUE]
             ELSE [r EXCEPT
                     !.h = p.h,
                     !.out = Append(@, Dispatch("initial", 0, "firing",
                                                check.InitialNotifiers)),
                     !.st.InitialNotified = TRUE]

sendInitialNotifications(check, r, t) ==
    IF Len(check.InitialNotifiers) = 0 THEN r
    ELSE IF r.st.InitialNotified THEN r
    ELSE LET p == applicablePauseHooks(r.h, t, check)
         IN  IF Len(p.hooks) > 0 THEN [r EXCEPT !.h = p.h]
             ELSE [r EXCEPT
                     !.h = p.h,
                     !.out = Append(@, Dispatch("initial", 0, "firing",
                                                check.InitialNotifiers)),
                     !.st.InitialNotified = TRUE]

\* variant: a one-shot stage's state is not written back to StageState
escalateStage_notStored(stage, idx, r, t) ==
    LET elapsed == t - r.st.FirstFailure
        stageState == r.st.StageState[idx]
        fire == [r EXCEPT
                   !.out = Append(@, Dispatch("stage", idx, "firing",
                                              stage.Notifiers)),
                   !.st.StageState[idx] = [Sent |-> TRUE, LastSent |-> t]]
        fireOnly == [r EXCEPT
                   !.out = Append(@, Dispatch("stage", idx, "firing",
                                              stage.Notifiers))]
    IN  IF elapsed < stage.After THEN r
        ELSE IF stage.Every > 0
        THEN IF stageState.LastSent = 0 \/ t - stageState.LastSent >= stage.Every
             THEN fire ELSE r
        ELSE IF stageState.Sent THEN r ELSE fireOnly

\* variant: a repeating stage waits for more than Every since its last send
escalateStage_late(stage, idx, r, t) ==
    LET elapsed == t - r.st.FirstFailure
        stageState == r.st.StageState[idx]
        fire == [r EXCEPT
                   !.out = Append(@, Dispatch("stage", idx, "firing",
                                              stage.Notifiers)),
                   !.st.StageState[idx] = [Sent |-> TRUE, LastSent |-> t]]
    IN  IF elapsed < stage.After THEN r
        ELSE IF stage.Every > 0
        THEN IF stageState.LastSent = 0 \/ t - stageState.LastSent > stage.Every
             THEN fire ELSE r
        ELSE IF stageState.Sent THEN r ELSE fire

\* one iteration of the loop over policy.Stages
escalateStage(stage, idx, r, t) ==
    LET elapsed == t - r.st.FirstFailure
        stageState == r.st.StageState[idx]
        fire == [r EXCEPT
                   !.out = Append(@, Dispatch("stage", idx, "firing",
                                              stage.Notifiers)),
                   !.st.StageState[idx] = [Sent |-> TRUE, LastSent |-> t]]
    IN  IF elapsed < stage.After THEN r
        ELSE IF stage.Every > 0
        THEN IF stageState.LastSent = 0 \/ t - stageState.LastSent >= stage.Every
             THEN fire ELSE r
        ELSE IF stageState.Sent THEN r ELSE fire

RECURSIVE escalateFrom(_, _, _, _)
escalateFrom(stages, idx, r, t) ==
    IF idx > Len(stages) THEN r
    ELSE escalateFrom(stages, idx + 1,
                      escalateStage(stages[idx], idx, r, t), t)

sendEscalations(check, r, t) ==
    IF check.Route \notin DOMAIN Policies THEN r
    ELSE LET p == applicablePauseHooks(r.h, t, check)
         IN  IF Len(p.hooks) > 0
             THEN [r EXCEPT !.h = p.h, !.paused = TRUE]
             ELSE escalateFrom(Policies[check.Route].Stages, 1,
                               [r EXCEPT !.h = p.h], t)

\* variant: the recovery event is built with status firing
sendResolveNotifications_firing(check, r) ==
    IF check.Route \notin DOMAIN Policies THEN r
    ELSE [r EXCEPT
            !.out = Append(@, Dispatch("resolve", 0, "firing",
                              Policies[check.Route].ResolveNotifiers))]

sendResolveNotifications(check, r) ==
    IF check.Route \notin DOMAIN Policies THEN r
    ELSE [r EXCEPT
            !.out = Append(@, Dispatch("resolve", 0, "resolved",
                              Policies[check.Route].ResolveNotifiers))]

\* on recovery: completes the matching until-first-success pause hooks of
\* scope check and invalidates the cache when any was completed
completePauseHooks(check, h, t) ==
    LET p == applicablePauseHooks(h, t, check)
        done == SelectSeq(p.hooks,
                   LAMBDA x : x.UntilFirstSuccess /\ x.Scope = "check")
        ids == [i \in DOMAIN done |-> done[i].ID]
    IN  IF Len(p.hooks) = 0 THEN p.h
        ELSE IF Len(done) = 0 THEN p.h
        ELSE invalidateHookCache([p.h EXCEPT !.store = CompleteAll(@, ids)])

\* variant: a new episode keeps the stage state and initial_notified of
\* the episode before it
handleResult_keepNotified(check, fr, st, h, success, t) ==
    LET history == appendHistory(st.history, ~success, windowSize(fr))
        prevFailing == st.Failing
        nowFailing == thresholdBreached(fr, history)
        st1 == [st EXCEPT !.history = history, !.LastUpdated = t]
        r1 == [st |-> st1, h |-> h, out |-> <<>>, paused |-> FALSE]
        entered == [r1 EXCEPT
                      !.st.Failing = TRUE,
                      !.st.FirstFailure = t]
    IN  IF nowFailing
        THEN sendEscalations(check,
                 sendInitialNotifications(check,
                     IF ~prevFailing THEN entered ELSE r1, t), t)
        ELSE IF prevFailing
        THEN sendResolveNotifications(check,
                 [r1 EXCEPT !.st.Failing = FALSE,
                            !.h = completePauseHooks(check, h, t)])
        ELSE r1

\* Runner.handleResult for a result with Success = success at time t
handleResult(check, fr, st, h, success, t) ==
    LET history == appendHistory(st.history, ~success, windowSize(fr))
        prevFailing == st.Failing
        nowFailing == thresholdBreached(fr, history)
        st1 == [st EXCEPT !.history = history, !.LastUpdated = t]
        r1 == [st |-> st1, h |-> h, out |-> <<>>, paused |-> FALSE]
        entered == [r1 EXCEPT
                      !.st.Failing = TRUE,
                      !.st.FirstFailure = t,
                      !.st.StageState =
                         [i \in StageIdx(check) |-> NoStageState],
                      !.st.InitialNotified = FALSE]
    IN  IF nowFailing
        THEN sendEscalations(check,
                 sendInitialNotifications(check,
                     IF ~prevFailing THEN entered ELSE r1, t), t)
        ELSE IF prevFailing
        THEN sendResolveNotifications(check,
                 [r1 EXCEPT !.st.Failing = FALSE,
                            !.h = completePauseHooks(check, h, t)])
        ELSE r1

\* ------------------------------------------- worker: storage.Store tables
\* Open: a retention option of 0 or less selects the default
Open(opts) ==
    [checkStateLimit |->
        IF opts.CheckStateRetention <= 0 THEN DefaultCheckStateRetention
        ELSE opts.CheckStateRetention,
     notificationLimit |->
        IF opts.NotificationRetention <= 0 THEN DefaultNotificationRetention
        ELSE opts.NotificationRetention]

EmptyTable == [rows |-> <<>>, seq |-> 0]

\* SELECT id FROM rows ORDER BY id DESC LIMIT limit
TopIDs(rows, limit) ==
    LET ids == {rows[i].id : i \in DOMAIN rows}
    IN  {x \in ids : Cardinality({y \in ids : y > x}) < limit}

\* INSERT with an AUTOINCREMENT id
insertRow(tbl, row) ==
    [rows |-> Append(tbl.rows, row @@ [id |-> tbl.seq + 1]),
     seq |-> tbl.seq + 1]

\* variant: the prune keeps the newest rows of the whole table
pruneCheckStates_global(rows, checkID, limit) ==
    LET keep == TopIDs(rows, limit)
    IN  SelectSeq(rows, LAMBDA r : r.id \in keep)

\* DELETE FROM check_states WHERE check_id = ? AND id NOT IN (the newest
\* limit ids of that check)
pruneCheckStates(rows, checkID, limit) ==
    LET own == SelectSeq(rows, LAMBDA r : r.check_id = checkID)
        keep == TopIDs(own, limit)
    IN  SelectSeq(rows, LAMBDA r : r.check_id # checkID \/ r.id \in keep)

\* Store.RecordCheckRun: insert and prune in one transaction; fault names
\* the statement that fails ("none": the transaction commits)
RecordCheckRun(tbl, run, limit, t, fault) ==
    LET row == [check_id |-> run.CheckID, success |-> run.Success,
                occurred_at |-> IF run.OccurredAt = 0 THEN t
                                ELSE run.OccurredAt]
        ins == insertRow(tbl, row)
        done == [ins EXCEPT
                   !.rows = pruneCheckStates(@, run.CheckID, limit)]
    IN  [tbl |-> IF fault = "none" THEN done ELSE tbl,
         err |-> fault # "none"]

\* variant: the prune keeps one row more than the limit
pruneNotificationLogs_plusOne(rows, limit) ==
    LET keep == TopIDs(rows, limit + 1)
    IN  SelectSeq(rows, LAMBDA r : r.id \in keep)

\* DELETE FROM notification_logs WHERE id NOT IN (the newest limit ids)
pruneNotificationLogs(rows, limit) ==
    LET keep == TopIDs(rows, limit)
    IN  SelectSeq(rows, LAMBDA r : r.id \in keep)

\* Store.RecordNotification: insert and global prune in one transaction
RecordNotification(tbl, log, limit, t, fault) ==
    LET row == [notifier_id |-> log.NotifierID, check_id |-> log.CheckID,
                run_id |-> log.RunID, status |-> log.Status,
                occurred_at |-> IF log.OccurredAt = 0 THEN t
                                ELSE log.OccurredAt]
        ins == insertRow(tbl, row)
        done == [ins EXCEPT !.rows = pruneNotificationLogs(@, limit)]
    IN  [tbl |-> IF fault = "none" THEN done ELSE tbl,
         err |-> fault # "none"]

\* applyHealthDefaults: the unset fields of server.health
applyHealthDefaults(cfg) ==
    [cfg EXCEPT
       !.MaxIntervalMultiplier = IF @ <= 0 THEN 3 ELSE @,
       !.RequiredRecentRuns = IF @ <= 0 THEN 1 ELSE @,
       !.NotificationErrorLookback = IF @ <= 0 THEN 20 ELSE @,
       !.NotificationErrorStatuses =
           IF Len(@) = 0 THEN <<"error", "failed", "failure">> ELSE @]

\* ------------------------------------------------- server: package access
\* net.ParseIP: the address, "" (nil) when the text is not one
ParseIP(x) == IF x \in IPs THEN x ELSE ""

\* the CIDR blocks of the model and net.IPNet.Contains on its addresses
Networks == {"10.0.0.0/8", "203.0.113.0/24"}

NetworkContains(network, ip) ==
    CASE network = "10.0.0.0/8" -> ip = ProxyIP
      [] network = "203.0.113.0/24" -> ip = ClientIP
      [] OTHER -> FALSE

\* access.NewAllowlist: blank entries are skipped, an entry with "/" is a
\* network, nothing left means allow all
NewAllowlist(entries) ==
    LET trimmed == { TrimSpace(entries[i]) : i \in DOMAIN entries } \ {""}
        networks == trimmed \cap Networks
        allowedIPsStr == { ParseIP(e) : e \in trimmed \ Networks }
    IN  [allowAll |-> Len(entries) = 0
                      \/ (networks = {} /\ allowedIPsStr = {}),
         networks |-> networks,
         allowedIPsStr |-> allowedIPsStr]

\* Allowlist.Allowed
Allowed(a, ip) ==
    \/ a.allowAll
    \/ /\ ip # ""
       /\ \/ ip \in a.allowedIPsStr
          \/ \E network \in a.networks : NetworkContains(network, ip)

\* access.ParseCIDRs
ParseCIDRs(cidrs) ==
    ({ TrimSpace(cidrs[i]) : i \in DOMAIN cidrs } \ {""}) \cap Networks

\* access.lastHopTrusted; net.SplitHostPort fails on an address without a
\* port and the whole address is taken as the host
lastHopTrusted(remoteAddr, trusted) ==
    /\ trusted # {}
    /\ ParseIP(remoteAddr.host) # ""
    /\ \E network \in trusted :
          NetworkContains(network, ParseIP(remoteAddr.host))

\* access.ClientIPFromRequest: the first part of X-Forwarded-For that
\* parses, when the header may be believed; else the host of RemoteAddr
ClientIPFromRequest(r, trusted) ==
    LET valid == SelectSeq(r.XForwardedFor,
                           LAMBDA part : ParseIP(TrimSpace(part)) # "")
        host == r.RemoteAddr.host
    IN  IF /\ r.XForwardedFor # <<>>
           /\ (trusted = {} \/ lastHopTrusted(r.RemoteAddr, trusted))
           /\ valid # <<>>
        THEN [ip |-> ParseIP(TrimSpace(valid[1])),
              str |-> ParseIP(TrimSpace(valid[1]))]
        ELSE [ip |-> ParseIP(host),
              str |-> IF ParseIP(host) = "" THEN host ELSE ParseIP(host)]

\* chi middleware.RealIP, installed by Routes before ipAllowMiddleware:
\* RemoteAddr becomes True-Client-IP, else X-Real-IP, else the text of
\* X-Forwarded-For before its first comma, when that parses as an address
RealIP(r) ==
    LET ip == IF r.TrueClientIP # "" THEN r.TrueClientIP
              ELSE IF r.XRealIP # "" THEN r.XRealIP
              ELSE IF r.XForwardedFor # <<>> THEN r.XForwardedFor[1]
              ELSE ""
    IN  IF ip = "" \/ ParseIP(ip) = "" THEN r
        ELSE [r EXCEPT !.RemoteAddr = [host |-> ip, port |-> ""]]

\* App.ipAllowMiddleware: 403 unless the resolved address is allowed; the
\* address text travels in the request context
ipAllowMiddleware(r, allow, trusted) ==
    LET resolved == ClientIPFromRequest(r, trusted)
    IN  [allowed |-> Allowed(allow, resolved.ip), ipStr |-> resolved.str]

\* ---------------------------------------------- server: App.handleHook
\* a Go int64 product, in DurationBits bits
WrapDuration(x) ==
    LET m == 2 ^ DurationBits
    IN  ((x + m \div 2) % m) - m \div 2

\* time.ParseDuration on the texts of the model
ParseDuration(x) ==
    CASE x = "1s" -> [err |-> FALSE, d |-> Second]
      [] x = "48h" -> [err |-> FALSE, d |-> 48 * 3600 * Second]
      [] x = "-1s" -> [err |-> FALSE, d |-> 0 - Second]
      [] OTHER -> [err |-> TRUE, d |-> 0]

\* Manager.defaultOpts.MaxDuration: 24 * time.Hour
DefaultMaxDuration == 24 * 3600 * Second

\* handleHook: the options handed to Manager.Invoke
hookOptions(payload) ==
    [DurationOverride |->
        IF payload.Duration # ""
        THEN [Set |-> TRUE, Duration |-> ParseDuration(payload.Duration).d]
        ELSE IF payload.DurationSeconds.Set
        THEN [Set |-> TRUE,
              Duration |-> WrapDuration(payload.DurationSeconds.Value
                                        * Second)]
        ELSE NoDuration,
     UntilFirstSuccess |-> payload.UntilFirstSuccess]

\* variant: the hook's own allowlist is not consulted
hookForbidden_never(allow, hookID, clientIPStr) == FALSE

\* handleHook: the hook has an allowlist and the address is not in it
hookForbidden(allow, hookID, clientIPStr) ==
    /\ hookID \in DOMAIN allow
    /\ ~Allowed(allow[hookID], ParseIP(clientIPStr))

\* handleHook behind the middleware: the status code, the hook table and
\* the execution it answers with (<<>>: none)
handleHook(r, clientIPStr, table, t, fault) ==
    LET payload == r.payload
        exec == buildExecution(hookConfigs[r.hookID], r.hookID,
                               hookOptions(payload), t, DefaultMaxDuration)
        no(code) == [code |-> code, table |-> table, exec |-> <<>>]
    IN  IF r.hookID = "" THEN no(400)
        ELSE IF r.hookID \notin DOMAIN hookConfigs THEN no(404)
        ELSE IF hookForbidden(hookAllowlist, r.hookID, clientIPStr)
        THEN no(403)
        ELSE IF ~payload.Valid THEN no(400)
        ELSE IF payload.Duration # "" /\ ParseDuration(payload.Duration).err
        THEN no(400)
        ELSE IF fault # "none" THEN no(400)
        ELSE [code |-> 202,
              table |-> InsertHookExecution(table, exec),
              exec |-> << exec @@ [ID |-> Len(table) + 1] >>]

\* variant: on conflict only the payload is replaced
UpsertNodeMetrics_payloadOnly(rows, snapshot, t, fault) ==
    LET nodeID == TrimSpace(snapshot.NodeID)
        ingestedAt == IF snapshot.IngestedAt = 0 THEN t
                      ELSE snapshot.IngestedAt
        row == [node_id |-> nodeID, payload |-> snapshot.Payload,
                ingested_at |-> ingestedAt,
                source_ip |-> TrimSpace(snapshot.SourceIP)]
        exists == \E i \in DOMAIN rows : rows[i].node_id = nodeID
    IN  IF nodeID = "" \/ TrimSpace(snapshot.Payload) = "" \/ fault # "none"
        THEN [rows |-> rows, err |-> TRUE]
        ELSE [rows |-> IF exists
                       THEN [i \in DOMAIN rows |->
                               IF rows[i].node_id = nodeID
                               THEN [rows[i] EXCEPT !.payload = row.payload]
                               ELSE rows[i]]
                       ELSE Append(rows, row),
              err |-> FALSE]

\* Store.UpsertNodeMetrics: INSERT ... ON CONFLICT(node_id) DO UPDATE, one
\* statement
UpsertNodeMetrics(rows, snapshot, t, fault) ==
    LET nodeID == TrimSpace(snapshot.NodeID)
        ingestedAt == IF snapshot.IngestedAt = 0 THEN t
                      ELSE snapshot.IngestedAt
        row == [node_id |-> nodeID, payload |-> snapshot.Payload,
                ingested_at |-> ingestedAt,
                source_ip |-> TrimSpace(snapshot.SourceIP)]
        exists == \E i \in DOMAIN rows : rows[i].node_id = nodeID
    IN  IF nodeID = "" \/ TrimSpace(snapshot.Payload) = "" \/ fault # "none"
        THEN [rows |-> rows, err |-> TRUE]
        ELSE [rows |-> IF exists
                       THEN [i \in DOMAIN rows |->
                               IF rows[i].node_id = nodeID THEN row
                               ELSE rows[i]]
                       ELSE Append(rows, row),
              err |-> FALSE]

\* Store.LatestNodeMetrics: the rows the SELECT returns for the node and
\* the snapshot scanned from the first of them (<<>>: nil, sql.ErrNoRows)
LatestNodeMetrics(rows, nodeID) ==
    LET id == TrimSpace(nodeID)
        found == SelectSeq(rows, LAMBDA r : r.node_id = id)
    IN  IF id = "" THEN [found |-> 0, snapshot |-> <<>>, err |-> TRUE]
        ELSE IF Len(found) = 0
        THEN [found |-> 0, snapshot |-> <<>>, err |-> FALSE]
        ELSE [found |-> Len(found),
              snapshot |-> << [NodeID |-> found[1].node_id,
                               Payload |-> found[1].payload,
                               IngestedAt |-> found[1].ingested_at,
                               SourceIP |-> found[1].source_ip] >>,
              err |-> FALSE]

\* ------------------------------------------------------------------ actions
\* bookkeeping of one failing episode, kept beside the runner's own state
NoEpisode(check) ==
    [start |-> 0, initCount |-> 0,
     stageCount |-> [i \in StageIdx(check) |-> 0],
     stageLast |-> [i \in StageIdx(check) |-> 0],
     suppressed |-> [i \in StageIdx(check) |-> FALSE]]

\* the runner after New, for the checks cfg and their thresholds fr
RunnerStart(cfg, fr) ==
    /\ now = 1
    /\ failureRatio = fr
    /\ state = [c \in DOMAIN cfg |-> NewCheckState(cfg[c])]
    /\ hooks = <<>>
    /\ hookCache = <<>>
    /\ hookCacheExpiry = 0
    /\ cacheLoadedAt = 0
    /\ outcomes = [c \in DOMAIN cfg |-> <<>>]
    /\ episode = [c \in DOMAIN cfg |-> NoEpisode(cfg[c])]
    /\ ev = <<>>
    /\ sent = <<>>
    /\ fetches = <<>>
    /\ obs = <<>>

\* no store call made yet
NoOp == [op |-> "none"]

\* the store after Open(opts): empty tables
StoreStart(opts) ==
    /\ storeOptions = opts
    /\ checkStateLimit = Open(opts).checkStateLimit
    /\ notificationLimit = Open(opts).notificationLimit
    /\ check_states = EmptyTable
    /\ notification_logs = EmptyTable
    /\ node_metrics = <<>>
    /\ inserted = [c \in StoreChecks |-> <<>>]
    /\ upserts = [n \in Nodes |-> <<>>]
    /\ lastOp = NoOp

\* App as constructed over cfg, before initialisePrometheusConfig
ReadyStart(cfg, onDisk) ==
    /\ metricsCfg = cfg.Prometheus
    /\ listen = cfg.Listen
    /\ appPc = "new"
    /\ promConfigPath = ""
    /\ promConfigAt = 0
    /\ promConfigTargets = <<>>
    /\ promConfigErr = ""
    /\ disk = [final |-> onDisk, tmp |-> "none"]
    /\ generated = FALSE
    /\ readyNow = 1
    /\ served = 0
    /\ response = <<>>

\* no hook and no check under evaluation
NoMatchHook == [Scope |-> "", TargetIDs |-> <<>>]

NoMatchCheck == [ID |-> "", Route |-> ""]

\* runner.New: the schedules and defaults of the configuration
LoopStart(sched, dflt) ==
    /\ schedule = sched
    /\ defaults = dflt
    /\ wallClock = 0
    /\ workerPc = [c \in TickChecks |-> "start"]
    /\ loopTicker = [c \in TickChecks |-> [period |-> 0, since |-> 0]]
    /\ executed = [c \in TickChecks |-> <<>>]
    /\ obsPc = [c \in ExecChecks |-> "idle"]
    /\ work = [c \in ExecChecks |-> <<>>]
    /\ seen = [c \in ExecChecks |-> {}]
    /\ fetchNo = [c \in ExecChecks |-> 0]
    /\ hookQueryErr = FALSE
    /\ completeErr = {}

\* the hook and the check handed to hookMatchesCheck
MatchStart(hook, check) ==
    /\ matchHook = hook
    /\ matchCheck = check
    /\ matched = <<>>

\* no call under way
NoCall == [fn |-> "none"]

\* the arguments of the call to make
CallStart(args) ==
    /\ callArgs = args
    /\ callResult = <<>>

\* the worker with no evaluation of hookMatchesCheck under way
TickStart(sched, dflt) ==
    /\ LoopStart(sched, dflt)
    /\ MatchStart(NoMatchHook, NoMatchCheck)
    /\ CallStart(NoCall)

\* app.New: the configuration of the server
ServerStart(cfg) ==
    /\ healthCfg = applyHealthDefaults(cfg.Health)
    /\ allowlist = NewAllowlist(cfg.Server.AllowedIPs)
    /\ trustedProxies = ParseCIDRs(cfg.Server.TrustedProxies)
    /\ hookConfigs =
          [id \in {cfg.Hooks[i].ID : i \in DOMAIN cfg.Hooks} |->
              LET i == CHOOSE i \in DOMAIN cfg.Hooks :
                         /\ cfg.Hooks[i].ID = id
                         /\ \A j \in DOMAIN cfg.Hooks :
                               cfg.Hooks[j].ID = id => j <= i
              IN  cfg.Hooks[i]]
    /\ hookAllowlist =
          LET own == {i \in DOMAIN cfg.Hooks :
                        Len(cfg.Hooks[i].AllowedIPs) # 0}
          IN  [id \in {cfg.Hooks[i].ID : i \in own} |->
                 LET i == CHOOSE i \in own :
                            /\ cfg.Hooks[i].ID = id
                            /\ \A j \in own : cfg.Hooks[j].ID = id => j <= i
                 IN  NewAllowlist(cfg.Hooks[i].AllowedIPs)]
    /\ request = <<>>

\* the check loops before Start has launched them
ExecStart(faults) ==
    /\ cancelled = FALSE
    /\ startPc = "ctx"
    /\ loopPc = [c \in ExecChecks |-> "init"]
    /\ calls = [c \in ExecChecks |-> 0]
    /\ execPc = [c \in ExecChecks |-> "none"]
    /\ attempt = [c \in ExecChecks |-> 0]
    /\ result = [c \in ExecChecks |-> FALSE]
    /\ pending = [c \in ExecChecks |-> <<>>]
    /\ dispatchPc = [c \in ExecChecks |-> 1]
    /\ ticker = [c \in ExecChecks |-> FALSE]
    /\ runNo = [c \in ExecChecks |-> 0]
    /\ persistedRun = [c \in ExecChecks |-> [run |-> 0, row |-> 0, err |-> FALSE]]
    /\ updatedRun = [c \in ExecChecks |-> 0]
    /\ observed = [c \in ExecChecks |-> FALSE]
    /\ notifying = {}
    /\ lastNotify = <<>>
    /\ logErr = {}
    /\ storeFaults = faults

Init ==
    /\ \E fr \in [Checks -> FailureRatios] : RunnerStart(CheckConfig, fr)
    /\ StoreStart(NoStoreOptions)
    /\ ExecStart({"none"})
    /\ ReadyStart(NoServerConfig, "none")
    /\ ServerStart(NoAppConfig)
    /\ TickStart(NoSchedule, 0)

\* a second passes
Tick ==
    /\ now < MaxTime
    /\ now' = now + 1
    /\ ev' = <<>>
    /\ sent' = <<>>
    /\ fetches' = <<>>
    /\ obs' = <<>>
    /\ UNCHANGED <<failureRatio, state, hooks, hookCache, hookCacheExpiry,
                   cacheLoadedAt, outcomes, episode>>
    /\ UNCHANGED <<storeVars, execVars, readyVars, serverVars, tickVars>>

\* server: POST /api/hook/{hookID} -> Manager.Invoke -> InsertHookExecution
Invoke(hookID, opts) ==
    /\ Len(hooks) < MaxHooks
    /\ now <= LastInvokeAt
    /\ hooks' = InsertHookExecution(hooks, InvokeRow(hookID, opts, now))
    /\ ev' = <<>>
    /\ sent' = <<>>
    /\ fetches' = <<>>
    /\ obs' = <<>>
    /\ UNCHANGED <<now, failureRatio, state, hookCache, hookCacheExpiry,
                   cacheLoadedAt, outcomes, episode>>
    /\ UNCHANGED <<storeVars, execVars, readyVars, serverVars, tickVars>>

\* worker: the loop of check c feeds the result of one execution to
\* handleResult; successive executions of a check are at least a second apart
HandleResult(c, success) ==
    /\ state[c].LastUpdated < now
    /\ \E res \in {handleResult(CheckConfig[c], failureRatio[c], state[c],
                                HookSide, success, now)} :
       LET check == CheckConfig[c]
           stages == Policies[check.Route].Stages
           e0 == IF ~state[c].Failing /\ res.st.Failing
                 THEN [NoEpisode(check) EXCEPT !.start = now]
                 ELSE episode[c]
           n(kind, i) == Cardinality({k \in DOMAIN res.out :
                            res.out[k].kind = kind /\ res.out[k].stage = i})
           due(i) == /\ now - e0.start >= stages[i].After
                     /\ \/ e0.stageCount[i] = 0
                        \/ /\ stages[i].Every > 0
                           /\ now - e0.stageLast[i] >= stages[i].Every
           e1 == IF ~res.st.Failing THEN NoEpisode(check)
                 ELSE [start |-> e0.start,
                       initCount |-> e0.initCount + n("initial", 0),
                       stageCount |-> [i \in StageIdx(check) |->
                                         e0.stageCount[i] + n("stage", i)],
                       stageLast |-> [i \in StageIdx(check) |->
                                         IF n("stage", i) > 0 THEN now
                                         ELSE e0.stageLast[i]],
                       suppressed |-> [i \in StageIdx(check) |->
                                         IF n("stage", i) > 0 THEN FALSE
                                         ELSE IF res.paused /\ due(i) THEN TRUE
                                         ELSE e0.suppressed[i]]]
       IN  /\ state' = [state EXCEPT ![c] = res.st]
           /\ hooks' = res.h.store
           /\ hookCache' = res.h.cache
           /\ hookCacheExpiry' = res.h.expiry
           /\ cacheLoadedAt' = res.h.loadedAt
           /\ fetches' = res.h.fetches
           /\ obs' = res.h.obs
           /\ outcomes' = [outcomes EXCEPT ![c] =
                             LET o == Append(@, ~success)
                             IN  IF Len(o) > MaxWindow THEN Tail(o) ELSE o]
           /\ episode' = [episode EXCEPT ![c] = e1]
           /\ ev' = << [check |-> c, at |-> now, success |-> success,
                        prevFailing |-> state[c].Failing,
                        nowFailing |-> res.st.Failing,
                        paused |-> res.paused,
                        prevEval |-> state[c].LastUpdated,
                        before |-> e0] >>
           /\ sent' = [k \in DOMAIN res.out |->
                         res.out[k] @@ [check |-> c, at |-> now]]
    /\ UNCHANGED <<now, failureRatio>>
    /\ UNCHANGED <<storeVars, execVars, readyVars, serverVars, tickVars>>

Next ==
    \/ Tick
    \/ \E q \in Requests : Invoke(q.hookID, q.opts)
    \/ \E c \in Checks, success \in BOOLEAN : HandleResult(c, success)

Spec == Init /\ [][Next]_vars

TypeOK ==
    /\ now \in 1..MaxTime
    /\ Len(hooks) <= MaxHooks
    /\ \A c \in Checks : Len(state[c].history) <= windowSize(failureRatio[c])

\* ------------------------------------- the runner over a failing store
\* the hook query of the store starts or stops failing
QueryFault ==
    /\ hookQueryErr' = ~hookQueryErr
    /\ ev' = <<>>
    /\ sent' = <<>>
    /\ fetches' = <<>>
    /\ obs' = <<>>
    /\ UNCHANGED <<now, failureRatio, state, hooks, hookCache,
                   hookCacheExpiry, cacheLoadedAt, outcomes, episode>>
    /\ UNCHANGED <<schedule, defaults, wallClock, workerPc, loopTicker,
                   executed, obsPc, work, seen, fetchNo>>
    /\ UNCHANGED <<matchVars, callVars, completeErr>>
    /\ UNCHANGED <<storeVars, execVars, readyVars, serverVars>>

\* the pause hooks invoked while the store fails
FailOpenRequests ==
    { q \in Requests : q.hookID \in {"pause-all", "pause-c1"} }

FailOpenInit ==
    /\ RunnerStart(CheckConfig,
                   [c \in Checks |->
                      [Set |-> TRUE, Window |-> 1, FailCount |-> 1]])
    /\ StoreStart(NoStoreOptions)
    /\ ExecStart({"none"})
    /\ ReadyStart(NoServerConfig, "none")
    /\ ServerStart(NoAppConfig)
    /\ TickStart(NoSchedule, 0)

FailOpenNext ==
    \/ Tick
    \/ QueryFault
    \/ \E q \in FailOpenRequests : Invoke(q.hookID, q.opts)
    \/ \E c \in Checks, success \in BOOLEAN : HandleResult(c, success)

FailOpenSpec == FailOpenInit /\ [][FailOpenNext]_vars

\* ------------------------------- the runner materialising pause hooks
\* CompleteHookExecution starts or stops failing for the row id
CompleteFault(id) ==
    /\ completeErr' = IF id \in completeErr THEN completeErr \ {id}
                      ELSE completeErr \cup {id}
    /\ UNCHANGED <<runnerVars, storeVars, execVars, readyVars, serverVars>>
    /\ UNCHANGED <<schedule, defaults, wallClock, workerPc, loopTicker,
                   executed, obsPc, work, seen, fetchNo>>
    /\ UNCHANGED <<matchVars, callVars, hookQueryErr>>

\* a check loop calls activePauseHooks(now)
MaterialiseBegin ==
    /\ callArgs = NoCall
    /\ callArgs' = [fn |-> "activePauseHooks", at |-> now, rounds |-> 0]
    /\ callResult' = <<>>
    /\ UNCHANGED <<runnerVars, storeVars, execVars, readyVars, serverVars>>
    /\ UNCHANGED <<schedule, defaults, wallClock, workerPc, loopTicker,
                   executed, obsPc, work, seen, fetchNo>>
    /\ UNCHANGED <<matchVars, faultVars>>

\* activePauseHooks runs its body once: it returns, or calls itself
MaterialiseRound ==
    /\ callArgs.fn = "activePauseHooks"
    /\ callResult = <<>>
    /\ LET r == activePauseHooksRound(HookSide, callArgs.at)
       IN  /\ hooks' = r.h.store
           /\ hookCache' = r.h.cache
           /\ hookCacheExpiry' = r.h.expiry
           /\ cacheLoadedAt' = r.h.loadedAt
           /\ fetches' = r.h.fetches
           /\ callArgs' = IF r.again
                          THEN [callArgs EXCEPT !.rounds = @ + 1]
                          ELSE callArgs
           /\ callResult' = IF r.again THEN <<>>
                            ELSE <<[hooks |-> r.hooks,
                                    snapshot |-> r.snapshot]>>
    /\ UNCHANGED <<now, failureRatio, state, outcomes, episode, ev, sent,
                   obs>>
    /\ UNCHANGED <<storeVars, execVars, readyVars, serverVars>>
    /\ UNCHANGED <<schedule, defaults, wallClock, workerPc, loopTicker,
                   executed, obsPc, work, seen, fetchNo>>
    /\ UNCHANGED <<matchVars, faultVars>>

\* the caller of activePauseHooks goes on
MaterialiseEnd ==
    /\ callArgs.fn = "activePauseHooks"
    /\ callResult # <<>>
    /\ callArgs' = NoCall
    /\ callResult' = <<>>
    /\ UNCHANGED <<runnerVars, storeVars, execVars, readyVars, serverVars>>
    /\ UNCHANGED <<schedule, defaults, wallClock, workerPc, loopTicker,
                   executed, obsPc, work, seen, fetchNo>>
    /\ UNCHANGED <<matchVars, faultVars>>

\* the last instant of the materialisations
MaxMaterialiseTime == 2

\* the hooks invoked around a materialisation
MaterialiseRequests ==
    { q \in Requests : q.hookID \in {"pause-c1", "resume-c1", "resume-r2"} }

MaterialiseInit ==
    /\ RunnerStart(CheckConfig,
                   [c \in Checks |->
                      [Set |-> TRUE, Window |-> 1, FailCount |-> 1]])
    /\ StoreStart(NoStoreOptions)
    /\ ExecStart({"none"})
    /\ ReadyStart(NoServerConfig, "none")
    /\ ServerStart(NoAppConfig)
    /\ TickStart(NoSchedule, 0)

MaterialiseNext ==
    \/ callArgs = NoCall /\ now < MaxMaterialiseTime /\ Tick
    \/ QueryFault
    \/ \E id \in 1..MaxHooks : CompleteFault(id)
    \/ \E q \in MaterialiseRequests : Invoke(q.hookID, q.opts)
    \/ MaterialiseBegin
    \/ MaterialiseRound
    \/ MaterialiseEnd

\* a call under way is not held up for ever
MaterialiseSpec ==
    MaterialiseInit /\ [][MaterialiseNext]_vars /\ WF_vars(MaterialiseRound)

\* ------------------------------------------------- the store on its own
\* persistCheckState -> Store.RecordCheckRun for check c
DoRecordCheckRun(c, fault) ==
    /\ check_states.seq < MaxRuns
    /\ LET run == [CheckID |-> c, Success |-> FALSE, OccurredAt |-> 0]
           res == RecordCheckRun(check_states, run, checkStateLimit, now,
                                 fault)
       IN  /\ check_states' = res.tbl
           /\ inserted' = IF res.err THEN inserted
                          ELSE [inserted EXCEPT
                                  ![c] = Append(@, check_states.seq + 1)]
           /\ lastOp' = [op |-> "RecordCheckRun", check |-> c,
                         fault |-> fault, err |-> res.err]
    /\ UNCHANGED <<storeOptions, checkStateLimit, notificationLimit,
                   notification_logs, node_metrics, upserts>>
    /\ UNCHANGED <<runnerVars, execVars, readyVars, serverVars, tickVars>>

\* recordNotification -> Store.RecordNotification for notifier n
DoRecordNotification(n, c, fault) ==
    /\ notification_logs.seq < MaxNotifications
    /\ LET log == [NotifierID |-> n, CheckID |-> c, RunID |-> "run",
                   Status |-> "firing", OccurredAt |-> now]
           res == RecordNotification(notification_logs, log,
                                     notificationLimit, now, fault)
       IN  /\ notification_logs' = res.tbl
           /\ lastOp' = [op |-> "RecordNotification", check |-> c,
                         fault |-> fault, err |-> res.err]
    /\ UNCHANGED <<storeOptions, checkStateLimit, notificationLimit,
                   check_states, node_metrics, inserted, upserts>>
    /\ UNCHANGED <<runnerVars, execVars, readyVars, serverVars, tickVars>>

\* the ingest path: Store.UpsertNodeMetrics
DoUpsertNodeMetrics(snapshot, fault) ==
    /\ \A n \in Nodes : Len(upserts[n]) < MaxUpserts
    /\ LET res == UpsertNodeMetrics(node_metrics, snapshot, now, fault)
           id == TrimSpace(snapshot.NodeID)
       IN  /\ node_metrics' = res.rows
           /\ upserts' = IF res.err THEN upserts
                         ELSE [upserts EXCEPT ![id] =
                                 Append(@, [Payload |-> snapshot.Payload,
                                            IngestedAt |->
                                               IF snapshot.IngestedAt = 0
                                               THEN now
                                               ELSE snapshot.IngestedAt])]
           /\ lastOp' = [op |-> "UpsertNodeMetrics", node |-> id,
                         fault |-> fault, err |-> res.err]
    /\ UNCHANGED <<storeOptions, checkStateLimit, notificationLimit,
                   check_states, notification_logs, inserted>>
    /\ UNCHANGED <<runnerVars, execVars, readyVars, serverVars, tickVars>>

\* a metrics check: Store.LatestNodeMetrics
DoLatestNodeMetrics(nodeID) ==
    /\ LET res == LatestNodeMetrics(node_metrics, nodeID)
       IN  lastOp' = [op |-> "LatestNodeMetrics", node |-> TrimSpace(nodeID),
                      found |-> res.found, snapshot |-> res.snapshot,
                      err |-> res.err]
    /\ UNCHANGED <<storeOptions, checkStateLimit, notificationLimit,
                   check_states, notification_logs, node_metrics, inserted,
                   upserts>>
    /\ UNCHANGED <<runnerVars, execVars, readyVars, serverVars, tickVars>>

StoreInit ==
    /\ RunnerStart(CheckConfig,
                   [c \in Checks |->
                      [Set |-> TRUE, Window |-> 1, FailCount |-> 1]])
    /\ \E opts \in StoreOptionSet : StoreStart(opts)
    /\ ExecStart({"none"})
    /\ ReadyStart(NoServerConfig, "none")
    /\ ServerStart(NoAppConfig)
    /\ TickStart(NoSchedule, 0)

StoreNext ==
    \/ \E c \in StoreChecks, fault \in TxFaults : DoRecordCheckRun(c, fault)
    \/ \E n \in {"n_a"}, c \in StoreChecks, fault \in TxFaults :
          DoRecordNotification(n, c, fault)

StoreSpec == StoreInit /\ [][StoreNext]_vars

MetricsInit ==
    /\ RunnerStart(CheckConfig,
                   [c \in Checks |->
                      [Set |-> TRUE, Window |-> 1, FailCount |-> 1]])
    /\ StoreStart(NoStoreOptions)
    /\ ExecStart({"none"})
    /\ ReadyStart(NoServerConfig, "none")
    /\ ServerStart(NoAppConfig)
    /\ TickStart(NoSchedule, 0)

MetricsNext ==
    \/ \E snapshot \in Snapshots, fault \in ExecFaults :
          DoUpsertNodeMetrics(snapshot, fault)
    \/ \E nodeID \in {"n1", " n1 ", "n2", ""} : DoLatestNodeMetrics(nodeID)

MetricsSpec == MetricsInit /\ [][MetricsNext]_vars

\* ------------------------------------------------ worker: the check loops
\* cron.Schedule.Next: the first firing strictly after t
cronNext(m, t) ==
    IF t < m.phase THEN m.phase
    ELSE m.phase + ((t - m.phase) \div m.period + 1) * m.period

\* variant: only range windows are looked at
contains_rangeOnly(m, t) ==
    CASE m.kind = "range" ->
           IF m.start = 0 \/ m.end = 0 THEN FALSE
           ELSE t >= m.start /\ t < m.end
      [] OTHER -> FALSE

\* maintenanceWindow.contains
contains(m, t) ==
    CASE m.kind = "range" ->
           IF m.start = 0 \/ m.end = 0 THEN FALSE
           ELSE t >= m.start /\ t < m.end
      [] m.kind = "cron" ->
           LET prev == cronNext(m, t - m.duration)
           IN  IF prev > t THEN FALSE ELSE t - prev <= m.duration
      [] OTHER -> FALSE

inMaintenance(t) ==
    \E i \in DOMAIN MaintenanceWindows : contains(MaintenanceWindows[i], t)

\* variant: the state machine is fed before the run is persisted
executeCheckTail_updateFirst == <<"handle", "persist">>

\* what executeCheck does with the final result of the retry loop
executeCheckTail == <<"persist", "handle">>

\* the step after step p of the tail ("none": executeCheck returns)
NextPc(p) ==
    LET i == CHOOSE k \in DOMAIN executeCheckTail : executeCheckTail[k] = p
    IN  IF i < Len(executeCheckTail) THEN executeCheckTail[i + 1] ELSE "none"

\* variant: the retry loop goes on after a successful attempt
retryAfter_success(success, a, retries) == a < retries

\* executeCheck: the retry loop makes another attempt after attempt a
retryAfter(success, a, retries) == ~success /\ a < retries

\* variant: executeCheck returns when the run could not be recorded
afterPersist_abort(err) == IF err THEN "none" ELSE NextPc("persist")

\* executeCheck after persistCheckState, which logs the error of
\* RecordCheckRun and returns nothing
afterPersist(err) == NextPc("persist")

\* variant: the notifier goroutine is started before the row is recorded
dispatchSteps_goFirst == <<"go", "record">>

\* one iteration of the loop of Runner.dispatch
dispatchSteps == <<"record", "go">>

\* variant: the loop does not wait for executeCheck to return
loopBlocked_async(c) == FALSE

\* runCheckLoop calls executeCheck synchronously
loopBlocked(c) == calls[c] > 0

\* variant: Start does not wait for the loops
allLoopsDone_noWait == TRUE

\* wg.Wait returns
allLoopsDone == \A c \in ExecChecks : loopPc[c] = "exited"

\* the notifier calls of the dispatches out, in order
RECURSIVE NotifierCalls(_, _)
NotifierCalls(out, k) ==
    IF k > Len(out) THEN <<>>
    ELSE [i \in DOMAIN out[k].ids |->
            [notifier |-> out[k].ids[i], status |-> out[k].status,
             ev |-> k]]
         \o NotifierCalls(out, k + 1)

\* the call of executeCheck by the loop of check c
Call(c) ==
    /\ calls' = [calls EXCEPT ![c] = @ + 1]
    /\ execPc' = [execPc EXCEPT ![c] = "enter"]

\* executeCheck of check c moves to step p ("none": it returns)
Goto(c, p) ==
    /\ execPc' = [execPc EXCEPT ![c] = p]
    /\ calls' = [calls EXCEPT ![c] = IF p = "none" THEN @ - 1 ELSE @]

\* runCheckLoop: the first executeCheck, before the select loop
LoopFirst(c) ==
    /\ loopPc[c] = "init"
    /\ loopPc' = [loopPc EXCEPT ![c] = "loop"]
    /\ Call(c)
    /\ UNCHANGED <<cancelled, startPc, attempt, result, pending, dispatchPc,
                   ticker, runNo, persistedRun, updatedRun, observed,
                   notifying, lastNotify, logErr, storeFaults, readyVars, serverVars, tickVars>>
    /\ UNCHANGED <<runnerVars, storeVars>>

\* runCheckLoop: select takes the tick and calls executeCheck
LoopSelectTick(c) ==
    /\ loopPc[c] = "loop"
    /\ ~loopBlocked(c)
    /\ ticker[c]
    /\ ticker' = [ticker EXCEPT ![c] = FALSE]
    /\ Call(c)
    /\ UNCHANGED <<cancelled, startPc, loopPc, attempt, result, pending,
                   dispatchPc, runNo, persistedRun, updatedRun, observed,
                   notifying, lastNotify, logErr, storeFaults, readyVars, serverVars, tickVars>>
    /\ UNCHANGED <<runnerVars, storeVars>>

\* runCheckLoop: select takes ctx.Done and the loop returns
LoopSelectDone(c) ==
    /\ loopPc[c] = "loop"
    /\ ~loopBlocked(c)
    /\ cancelled
    /\ loopPc' = [loopPc EXCEPT ![c] = "exited"]
    /\ observed' = [observed EXCEPT ![c] = TRUE]
    /\ UNCHANGED <<cancelled, startPc, calls, execPc, attempt, result,
                   pending, dispatchPc, ticker, runNo, persistedRun,
                   updatedRun, notifying, lastNotify, logErr, storeFaults, readyVars, serverVars, tickVars>>
    /\ UNCHANGED <<runnerVars, storeVars>>

\* executeCheck: the maintenance test at its entry
Enter(c) ==
    /\ execPc[c] = "enter"
    /\ IF inMaintenance(now)
       THEN /\ Goto(c, "none")
            /\ UNCHANGED <<attempt, runNo>>
       ELSE /\ Goto(c, "attempt")
            /\ attempt' = [attempt EXCEPT ![c] = 0]
            /\ runNo' = [runNo EXCEPT ![c] = @ + 1]
    /\ UNCHANGED <<cancelled, startPc, loopPc, result, pending, dispatchPc,
                   ticker, persistedRun, updatedRun, observed, notifying,
                   lastNotify, logErr, storeFaults, readyVars, serverVars, tickVars>>
    /\ UNCHANGED <<runnerVars, storeVars>>

\* executeCheck: the select at the head of an attempt
\* variant: a cancellation seen between two retries records the failed
\* attempt
afterSelect_recordFailed(cancel, a) ==
    IF ~cancel THEN "probing"
    ELSE IF a > 0 THEN executeCheckTail[1] ELSE "none"

\* the select at the head of an attempt: executeCheck returns when the
\* context is done, whatever attempt it is
afterSelect(cancel, a) ==
    IF cancel THEN "none" ELSE "probing"

AttemptSelect(c) ==
    /\ execPc[c] = "attempt"
    /\ Goto(c, afterSelect(cancelled, attempt[c]))
    /\ observed' = IF cancelled THEN [observed EXCEPT ![c] = TRUE]
                   ELSE observed
    /\ UNCHANGED <<cancelled, startPc, loopPc, attempt, result, pending,
                   dispatchPc, ticker, runNo, persistedRun, updatedRun,
                   notifying, lastNotify, logErr, storeFaults, readyVars, serverVars, tickVars>>
    /\ UNCHANGED <<runnerVars, storeVars>>

\* executeCheck: checks.Execute returns with Success = success; a failed
\* attempt that may be retried sleeps for the backoff and loops
ProbeDone(c, success) ==
    /\ execPc[c] = "probing"
    /\ result' = [result EXCEPT ![c] = success]
    /\ IF retryAfter(success, attempt[c], Retries[c])
       THEN /\ Goto(c, "attempt")
            /\ attempt' = [attempt EXCEPT ![c] = @ + 1]
       ELSE /\ Goto(c, executeCheckTail[1])
            /\ UNCHANGED attempt
    /\ UNCHANGED <<cancelled, startPc, loopPc, pending, dispatchPc, ticker,
                   runNo, persistedRun, updatedRun, observed, notifying,
                   lastNotify, logErr, storeFaults, readyVars, serverVars, tickVars>>
    /\ UNCHANGED <<runnerVars, storeVars>>

\* executeCheck: persistCheckState
Persist(c) ==
    /\ execPc[c] = "persist"
    /\ \E fault \in storeFaults :
         LET run == [CheckID |-> c, Success |-> result[c],
                     OccurredAt |-> now]
             res == RecordCheckRun(check_states, run, checkStateLimit, now,
                                   fault)
         IN  /\ check_states' = res.tbl
             /\ inserted' = IF res.err THEN inserted
                            ELSE [inserted EXCEPT
                                    ![c] = Append(@, res.tbl.seq)]
             /\ persistedRun' = [persistedRun EXCEPT
                                   ![c] = [run |-> runNo[c],
                                           row |-> res.tbl.seq,
                                           err |-> res.err]]
             /\ Goto(c, afterPersist(res.err))
    /\ UNCHANGED <<cancelled, startPc, loopPc, attempt, result, pending,
                   dispatchPc, ticker, runNo, updatedRun, observed,
                   notifying, lastNotify, logErr, storeFaults, readyVars, serverVars, tickVars>>
    /\ UNCHANGED <<storeOptions, checkStateLimit, notificationLimit,
                   notification_logs, node_metrics, upserts, lastOp>>
    /\ UNCHANGED runnerVars

\* executeCheck: handleResult up to its dispatch calls; it returns at once
\* when it has nothing to dispatch
Handle(c) ==
    /\ execPc[c] = "handle"
    /\ \E res \in {handleResult(ExecCheckConfig[c], failureRatio[c], state[c],
                                HookSide, result[c], now)} :
          /\ state' = [state EXCEPT ![c] = res.st]
          /\ hooks' = res.h.store
          /\ hookCache' = res.h.cache
          /\ hookCacheExpiry' = res.h.expiry
          /\ cacheLoadedAt' = res.h.loadedAt
          /\ pending' = [pending EXCEPT ![c] = NotifierCalls(res.out, 1)]
          /\ Goto(c, IF NotifierCalls(res.out, 1) = <<>>
                     THEN NextPc("handle") ELSE "dispatch")
    /\ updatedRun' = [updatedRun EXCEPT ![c] = runNo[c]]
    /\ dispatchPc' = [dispatchPc EXCEPT ![c] = 1]
    /\ UNCHANGED <<cancelled, startPc, loopPc, attempt, result, ticker, runNo,
                   persistedRun, observed, notifying, lastNotify, logErr, storeFaults, readyVars, serverVars, tickVars>>
    /\ UNCHANGED <<now, failureRatio, outcomes, episode, ev, sent, fetches,
                   obs>>
    /\ UNCHANGED storeVars

\* Runner.dispatch: one statement of the iteration for the first pending
\* notifier: recordNotification, or the go statement that starts Notify;
\* handleResult returns after the last one
DispatchStep(c) ==
    /\ execPc[c] = "dispatch"
    /\ pending[c] # <<>>
    /\ LET call == pending[c][1]
           g == [notifier |-> call.notifier, check |-> c, run |-> runNo[c],
                 status |-> call.status, ev |-> call.ev]
           log == [NotifierID |-> g.notifier, CheckID |-> c,
                   RunID |-> <<g.run, g.ev>>, Status |-> g.status,
                   OccurredAt |-> now]
       IN  IF dispatchSteps[dispatchPc[c]] = "record"
           THEN /\ \E fault \in storeFaults :
                     LET res == RecordNotification(notification_logs, log,
                                                   notificationLimit, now,
                                                   fault)
                     IN  /\ notification_logs' = res.tbl
                         /\ logErr' = IF res.err THEN logErr \cup {g}
                                      ELSE logErr
                /\ UNCHANGED notifying
           ELSE /\ notifying' = notifying \cup {g}
                /\ UNCHANGED <<notification_logs, logErr, storeFaults, readyVars, serverVars, tickVars>>
    /\ IF dispatchPc[c] < Len(dispatchSteps)
       THEN /\ dispatchPc' = [dispatchPc EXCEPT ![c] = @ + 1]
            /\ UNCHANGED <<pending, calls, execPc>>
       ELSE /\ dispatchPc' = [dispatchPc EXCEPT ![c] = 1]
            /\ pending' = [pending EXCEPT ![c] = Tail(@)]
            /\ IF Len(pending[c]) = 1 THEN Goto(c, NextPc("handle"))
               ELSE UNCHANGED <<calls, execPc>>
    /\ UNCHANGED <<cancelled, startPc, loopPc, attempt, result, ticker, runNo,
                   persistedRun, updatedRun, observed, lastNotify,
                   storeFaults, readyVars, serverVars, tickVars>>
    /\ UNCHANGED <<storeOptions, checkStateLimit, notificationLimit,
                   check_states, node_metrics, inserted, upserts, lastOp>>
    /\ UNCHANGED runnerVars

\* the goroutine started by dispatch: Notify returns, with an error or not
NotifyRun(g, ok) ==
    /\ g \in notifying
    /\ notifying' = notifying \ {g}
    /\ lastNotify' = << [g |-> g, ok |-> ok] >>
    /\ UNCHANGED <<cancelled, startPc, loopPc, calls, execPc, attempt, result,
                   pending, dispatchPc, ticker, runNo, persistedRun,
                   updatedRun, observed, logErr, storeFaults, readyVars, serverVars, tickVars>>
    /\ UNCHANGED <<runnerVars, storeVars>>

\* a second passes; the tickers of the running loops fire on their interval
ExecTick ==
    /\ now < MaxExecTime
    /\ now' = now + 1
    /\ ticker' = [c \in ExecChecks |->
                    IF loopPc[c] = "loop" /\ (now' - 1) % Interval[c] = 0
                    THEN TRUE ELSE ticker[c]]
    /\ UNCHANGED <<cancelled, startPc, loopPc, calls, execPc, attempt, result,
                   pending, dispatchPc, runNo, persistedRun, updatedRun,
                   observed, notifying, lastNotify, logErr, storeFaults, readyVars, serverVars, tickVars>>
    /\ UNCHANGED <<failureRatio, state, hooks, hookCache, hookCacheExpiry,
                   cacheLoadedAt, outcomes, episode, ev, sent, fetches, obs>>
    /\ UNCHANGED storeVars

\* the ticker of a running loop fires
TickerFire(c) ==
    /\ loopPc[c] = "loop"
    /\ ~ticker[c]
    /\ runNo[c] + (IF execPc[c] = "enter" THEN 1 ELSE 0) < MaxExecutions
    /\ ticker' = [ticker EXCEPT ![c] = TRUE]
    /\ UNCHANGED <<cancelled, startPc, loopPc, calls, execPc, attempt, result,
                   pending, dispatchPc, runNo, persistedRun, updatedRun,
                   observed, notifying, lastNotify, logErr, storeFaults, readyVars, serverVars, tickVars>>
    /\ UNCHANGED <<runnerVars, storeVars>>

\* the shutdown signal cancels the context
Shutdown ==
    /\ ~cancelled
    /\ cancelled' = TRUE
    /\ UNCHANGED <<startPc, loopPc, calls, execPc, attempt, result, pending,
                   dispatchPc, ticker, runNo, persistedRun, updatedRun,
                   observed, notifying, lastNotify, logErr, storeFaults, readyVars, serverVars, tickVars>>
    /\ UNCHANGED <<runnerVars, storeVars>>

\* Start: <-ctx.Done() returns
StartWake ==
    /\ startPc = "ctx"
    /\ cancelled
    /\ startPc' = "wg"
    /\ UNCHANGED <<cancelled, loopPc, calls, execPc, attempt, result, pending,
                   dispatchPc, ticker, runNo, persistedRun, updatedRun,
                   observed, notifying, lastNotify, logErr, storeFaults, readyVars, serverVars, tickVars>>
    /\ UNCHANGED <<runnerVars, storeVars>>

\* Start: wg.Wait() returns and Start returns ctx.Err()
StartReturn ==
    /\ startPc = "wg"
    /\ allLoopsDone
    /\ startPc' = "returned"
    /\ UNCHANGED <<cancelled, loopPc, calls, execPc, attempt, result, pending,
                   dispatchPc, ticker, runNo, persistedRun, updatedRun,
                   observed, notifying, lastNotify, logErr, storeFaults, readyVars, serverVars, tickVars>>
    /\ UNCHANGED <<runnerVars, storeVars>>

ExecInit ==
    /\ RunnerStart(ExecCheckConfig, [c \in ExecChecks |-> ExecFailureRatio])
    /\ StoreStart(NoStoreOptions)
    /\ ExecStart(ExecFaults)
    /\ ReadyStart(NoServerConfig, "none")
    /\ ServerStart(NoAppConfig)
    /\ TickStart(NoSchedule, 0)

\* the same runner over a store whose writes succeed
LoopInit ==
    /\ RunnerStart(ExecCheckConfig, [c \in ExecChecks |-> ExecFailureRatio])
    /\ StoreStart(NoStoreOptions)
    /\ ExecStart({"none"})
    /\ ReadyStart(NoServerConfig, "none")
    /\ ServerStart(NoAppConfig)
    /\ TickStart(NoSchedule, 0)

\* the steps of the loop of check c
LoopStep(c) ==
    \/ LoopFirst(c)
    \/ LoopSelectTick(c)
    \/ Enter(c)
    \/ AttemptSelect(c)
    \/ \E success \in BOOLEAN : ProbeDone(c, success)
    \/ Persist(c)
    \/ Handle(c)
    \/ DispatchStep(c)

\* one check loop with the clock, the maintenance windows and the notifier
\* goroutines
ExecNext ==
    \/ ExecTick
    \/ LoopStep("c1")
    \/ \E g \in notifying, ok \in BOOLEAN : NotifyRun(g, ok)

ExecSpec == ExecInit /\ [][ExecNext]_vars

\* all check loops and Start, with the shutdown signal
LoopNext ==
    \/ Shutdown
    \/ StartWake
    \/ StartReturn
    \/ \E c \in ExecChecks : TickerFire(c)
    \/ \E c \in ExecChecks : LoopStep(c)
    \/ \E c \in ExecChecks : LoopSelectDone(c)
    \/ \E g \in notifying, ok \in BOOLEAN : NotifyRun(g, ok)

LoopSpec == LoopInit /\ [][LoopNext]_vars

\* handleResult returns: the step of the loop of c that leaves "handle";
\* Handle(c) is the only action that takes it
HandleReturns(c) ==
    /\ execPc[c] = "handle"
    /\ execPc' \in { [execPc EXCEPT ![c] = p] :
                        p \in {"dispatch", NextPc("handle")} }

\* every loop keeps taking steps (the goroutine of a loop is scheduled
\* again and again; the fairness of its handleResult step is stated on
\* HandleReturns), Start too, and a select whose ctx.Done case is ready
\* again and again eventually takes it
LoopLive ==
    /\ LoopSpec
    /\ \A c \in ExecChecks : WF_vars(execPc[c] # "handle" /\ LoopStep(c))
    /\ \A c \in ExecChecks : WF_execPc(HandleReturns(c))
    /\ \A c \in ExecChecks : SF_vars(LoopSelectDone(c))
    /\ WF_vars(StartWake)
    /\ WF_vars(StartReturn)

\* ------------------------------------------------------ readiness (server)
statusOK == "ok"
statusWarn == "warn"
statusCritical == "critical"

\* dedupeTargets: trimmed, non-empty, distinct (the targets of the model
\* never need sorting: at most one distinct target remains)
RECURSIVE dedupeTargets(_)
dedupeTargets(raw) ==
    IF raw = <<>> THEN <<>>
    ELSE LET rest == dedupeTargets(SubSeq(raw, 1, Len(raw) - 1))
             target == TrimSpace(raw[Len(raw)])
         IN  IF target = "" \/ target \in Range(rest) THEN rest
             ELSE Append(rest, target)

\* deriveTargetFromListen: an empty host becomes localhost
deriveTargetFromListen(l) ==
    CASE TrimSpace(l) = "" -> ""
      [] TrimSpace(l) = ":8080" -> "localhost:8080"
      [] OTHER -> TrimSpace(l)

\* atomicReplace(tmp, path) on the disk d: rename, and on failure remove the
\* old file and rename again
atomicReplace(d, fault) ==
    CASE fault = "rename_remove" ->
            [disk |-> [d EXCEPT !.tmp = "none"], err |-> "replace config"]
      [] fault = "rename_rename" ->
            [disk |-> [final |-> "none", tmp |-> "none"],
             err |-> "replace config"]
      [] OTHER ->
            [disk |-> [final |-> d.tmp, tmp |-> "none"], err |-> ""]

\* App.generatePrometheusConfig: the targets written, the error and the disk
generatePrometheusConfig(cfg, l, d, fault) ==
    LET path == TrimSpace(cfg.ConfigPath)
        own == dedupeTargets(cfg.Targets)
        targets == IF Len(own) = 0 /\ deriveTargetFromListen(l) # ""
                   THEN <<deriveTargetFromListen(l)>> ELSE own
        written == [d EXCEPT !.tmp = "new"]
        replaced == atomicReplace(written, fault)
    IN  CASE path = "" ->
               [targets |-> <<>>, err |-> "prometheus config path is empty",
                disk |-> d]
          [] path # "" /\ Len(targets) = 0 ->
               [targets |-> <<>>,
                err |-> "no prometheus scrape targets configured",
                disk |-> d]
          [] path # "" /\ Len(targets) > 0
                /\ fault \in {"marshal", "mkdir", "write"} ->
               [targets |-> <<>>, err |-> fault, disk |-> d]
          [] OTHER ->
               [targets |-> IF replaced.err = "" THEN targets ELSE <<>>,
                err |-> replaced.err, disk |-> replaced.disk]

\* App.prometheusConfigStatus: the status of the configuration component
prometheusConfigStatus(path, at, err) ==
    LET component == IF path = "" THEN statusWarn ELSE statusOK
    IN  IF err # "" THEN statusCritical
        ELSE IF at = 0
             THEN IF component = statusOK THEN statusWarn ELSE component
             ELSE component

\* variant: a warning does not make the server unready
readinessCode_warnReady(status) ==
    IF status # statusCritical THEN 200 ELSE 503

\* handleReadiness: 200 when the component is ok, else 503
readinessCode(status) ==
    IF status = statusOK THEN 200 ELSE 503

\* App.initialisePrometheusConfig, once at startup
InitialisePrometheusConfig(fault) ==
    /\ appPc = "new"
    /\ appPc' = "started"
    /\ promConfigPath' = TrimSpace(metricsCfg.ConfigPath)
    /\ IF TrimSpace(metricsCfg.ConfigPath) = ""
       THEN /\ promConfigAt' = 0
            /\ promConfigTargets' = <<>>
            /\ promConfigErr' = "server.prometheus.config_path is required"
            /\ UNCHANGED <<disk, generated>>
       ELSE \E res \in {generatePrometheusConfig(metricsCfg, listen, disk,
                                                 fault)} :
               /\ disk' = res.disk
               /\ generated' = (res.err = "")
               /\ promConfigErr' = res.err
               /\ promConfigAt' = IF res.err = "" THEN readyNow ELSE 0
               /\ promConfigTargets' = IF res.err = "" THEN res.targets
                                       ELSE <<>>
    /\ UNCHANGED <<metricsCfg, listen, readyNow, served, response>>
    /\ UNCHANGED <<runnerVars, storeVars, execVars, serverVars, tickVars>>

\* GET /ready
HandleReadiness ==
    /\ served < MaxRequests
    /\ served' = served + 1
    /\ LET status == prometheusConfigStatus(promConfigPath, promConfigAt,
                                            promConfigErr)
       IN  response' = << [path |-> "/readiness",
                           code |-> readinessCode(status),
                           status |-> status,
                           generated_at |-> readyNow] >>
    /\ UNCHANGED <<metricsCfg, listen, appPc, promConfigPath, promConfigAt,
                   promConfigTargets, promConfigErr, disk, generated,
                   readyNow>>
    /\ UNCHANGED <<runnerVars, storeVars, execVars, serverVars, tickVars>>

\* a second of server time passes
ReadyTick ==
    /\ readyNow < MaxReadyTime
    /\ readyNow' = readyNow + 1
    /\ UNCHANGED <<metricsCfg, listen, appPc, promConfigPath, promConfigAt,
                   promConfigTargets, promConfigErr, disk, generated, served,
                   response>>
    /\ UNCHANGED <<runnerVars, storeVars, execVars, serverVars, tickVars>>

ReadyInit ==
    /\ RunnerStart(CheckConfig,
                   [c \in Checks |->
                      [Set |-> TRUE, Window |-> 1, FailCount |-> 1]])
    /\ StoreStart(NoStoreOptions)
    /\ ExecStart({"none"})
    /\ \E cfg \in ServerConfigs, onDisk \in {"none", "old"} :
          ReadyStart(cfg, onDisk)
    /\ \E cfg \in AppConfigs : ServerStart(cfg)
    /\ TickStart(NoSchedule, 0)

ReadyNext ==
    \/ \E fault \in GenFaults : InitialisePrometheusConfig(fault)
    \/ HandleReadiness
    \/ ReadyTick

ReadySpec == ReadyInit /\ [][ReadyNext]_vars

\* ------------------------------------------------------- health (server)
\* App.effectiveInterval of the server
serverEffectiveInterval(c) ==
    IF ServerInterval[c].Set THEN ServerInterval[c].Duration
    ELSE IF ServerDefaultInterval > 0 THEN ServerDefaultInterval
         ELSE 60

\* Store.LatestCheckRun: ORDER BY occurred_at DESC LIMIT 1; the rows it can
\* return (SQL leaves the order of equal occurred_at open), <<>> for none
LatestCheckRun(rows, checkID) ==
    LET own == {rows[i] : i \in {j \in DOMAIN rows :
                                    rows[j].check_id = checkID}}
    IN  IF own = {} THEN {<<>>}
        ELSE { <<r>> : r \in {x \in own :
                                \A y \in own :
                                   y.occurred_at <= x.occurred_at} }

\* Store.CountRecentCheckRuns
CountRecentCheckRuns(rows, checkID, since) ==
    Cardinality({i \in DOMAIN rows :
                   rows[i].check_id = checkID
                   /\ rows[i].occurred_at >= since})

\* Store.RecentNotificationLogs: ORDER BY occurred_at DESC LIMIT limit; the
\* sets of rows it can return
RecentNotificationLogs(rows, limit) ==
    LET all == Range(rows)
        lim == IF limit <= 0 THEN 10 ELSE limit
        n == Min(lim, Cardinality(all))
    IN  { picked \in SUBSET all :
            /\ Cardinality(picked) = n
            /\ \A x \in picked, y \in all \ picked :
                  y.occurred_at <= x.occurred_at }

\* evaluateChecks for one check: lastRun as returned by LatestCheckRun
evaluateCheck(cfg, c, rows, lastRun, t, fault) ==
    LET interval == IF serverEffectiveInterval(c) <= 0 THEN 60
                    ELSE serverEffectiveInterval(c)
        scaled == interval * cfg.MaxIntervalMultiplier
        window == IF scaled <= 0 THEN interval ELSE scaled
        count == CountRecentCheckRuns(rows, c, t - window)
        byCount == IF count < cfg.RequiredRecentRuns THEN statusWarn
                   ELSE statusOK
        byAge == IF t - lastRun[1].occurred_at > window THEN statusWarn
                 ELSE byCount
    IN  IF fault = [op |-> "latest", check |-> c] THEN statusCritical
        ELSE IF lastRun = <<>>
             THEN IF cfg.SkipChecksWithNoHistory THEN statusOK
                  ELSE IF cfg.FailOnMissingCheckState THEN statusCritical
                       ELSE statusWarn
             ELSE IF fault = [op |-> "count", check |-> c]
                  THEN statusCritical
                  ELSE IF ~lastRun[1].success /\ byAge = statusOK
                       THEN statusWarn
                       ELSE byAge

\* evaluateNotifications over the rows RecentNotificationLogs returned
evaluateNotifications(cfg, logs, fault) ==
    LET errorStatuses ==
            { ToLower(TrimSpace(cfg.NotificationErrorStatuses[i])) :
                i \in DOMAIN cfg.NotificationErrorStatuses }
    IN  IF fault.op = "logs" THEN statusCritical
        ELSE IF logs = {}
             THEN IF ~cfg.AllowNoNotifications THEN statusWarn
                  ELSE statusOK
             ELSE IF \E entry \in logs : ToLower(entry.status) \in errorStatuses
                  THEN statusWarn
                  ELSE statusOK

\* the loop of deriveOverallStatus over the check components from index i
RECURSIVE overallFrom(_, _, _)
overallFrom(checks, i, status) ==
    IF i > Len(checks) THEN status
    ELSE IF checks[i] = statusCritical THEN statusCritical
         ELSE overallFrom(checks, i + 1,
                          IF checks[i] = statusWarn THEN statusWarn
                          ELSE status)

\* variant: a warning of a check does not count
deriveOverallStatus_checksCritical(databaseStatus, notificationStatus, checks) ==
    IF databaseStatus = statusCritical \/ notificationStatus = statusCritical
       \/ \E i \in DOMAIN checks : checks[i] = statusCritical
    THEN statusCritical
    ELSE IF databaseStatus = statusWarn \/ notificationStatus = statusWarn
         THEN statusWarn ELSE statusOK

\* deriveOverallStatus
deriveOverallStatus(databaseStatus, notificationStatus, checks) ==
    IF databaseStatus = statusCritical \/ notificationStatus = statusCritical
    THEN statusCritical
    ELSE overallFrom(checks, 1,
                     IF databaseStatus = statusWarn
                        \/ notificationStatus = statusWarn
                     THEN statusWarn ELSE statusOK)

\* App.healthSnapshot: latest maps each check to the row LatestCheckRun
\* returned, logs is what RecentNotificationLogs returned
healthSnapshot(cfg, runs, latest, logs, t, fault) ==
    LET database == IF fault.op = "ping" THEN statusCritical ELSE statusOK
        checks == [i \in DOMAIN ServerChecks |->
                     evaluateCheck(cfg, ServerChecks[i], runs,
                                   latest[ServerChecks[i]], t, fault)]
        notifications == evaluateNotifications(cfg, logs, fault)
    IN  [Status |-> deriveOverallStatus(database, notifications, checks),
         Database |-> database,
         Checks |-> checks,
         Notifications |-> notifications]

\* GET /healthcheck
HandleHealth(fault) ==
    /\ served < MaxHealthRequests
    /\ served' = served + 1
    /\ \E latest \in [ServerCheckIDs -> UNION
                        {LatestCheckRun(check_states.rows, c) :
                           c \in ServerCheckIDs}],
          logs \in RecentNotificationLogs(notification_logs.rows,
                                          healthCfg.NotificationErrorLookback) :
          /\ \A c \in ServerCheckIDs :
                latest[c] \in LatestCheckRun(check_states.rows, c)
          /\ \E resp \in {healthSnapshot(healthCfg, check_states.rows,
                                         latest, logs, readyNow, fault)} :
                response' = << [path |-> "/healthcheck",
                                code |-> IF resp.Status # statusOK
                                         THEN 503 ELSE 200,
                                status |-> resp.Status,
                                database |-> resp.Database,
                                checks |-> resp.Checks,
                                notifications |-> resp.Notifications,
                                generated_at |-> readyNow] >>
    /\ UNCHANGED <<metricsCfg, listen, appPc, promConfigPath, promConfigAt,
                   promConfigTargets, promConfigErr, disk, generated,
                   readyNow>>
    /\ UNCHANGED <<runnerVars, storeVars, execVars, serverVars, tickVars>>

\* the worker process persists a run of check c (persistCheckState)
WorkerRun(c, success) ==
    /\ check_states.seq < MaxHealthRuns
    /\ LET run == [CheckID |-> c, Success |-> success,
                   OccurredAt |-> readyNow]
           res == RecordCheckRun(check_states, run, checkStateLimit,
                                 readyNow, "none")
       IN  /\ check_states' = res.tbl
           /\ inserted' = [inserted EXCEPT ![c] = Append(@, res.tbl.seq)]
    /\ UNCHANGED <<storeOptions, checkStateLimit, notificationLimit,
                   notification_logs, node_metrics, upserts, lastOp>>
    /\ UNCHANGED <<runnerVars, execVars, readyVars, serverVars, tickVars>>

\* the worker process records a notification (recordNotification)
WorkerNotification(c, status) ==
    /\ notification_logs.seq < MaxHealthLogs
    /\ LET log == [NotifierID |-> "n_a", CheckID |-> c, RunID |-> "run",
                   Status |-> status, OccurredAt |-> readyNow]
       IN  notification_logs' =
              RecordNotification(notification_logs, log, notificationLimit,
                                 readyNow, "none").tbl
    /\ UNCHANGED <<storeOptions, checkStateLimit, notificationLimit,
                   check_states, node_metrics, inserted, upserts, lastOp>>
    /\ UNCHANGED <<runnerVars, execVars, readyVars, serverVars, tickVars>>

\* the server over the database the worker writes
HealthInit ==
    /\ RunnerStart(CheckConfig,
                   [c \in Checks |->
                      [Set |-> TRUE, Window |-> 1, FailCount |-> 1]])
    /\ StoreStart(NoStoreOptions)
    /\ ExecStart({"none"})
    /\ ReadyStart([Prometheus |-> [ConfigPath |-> "/p", Targets |-> <<"t1">>],
                   Listen |-> ":8080"], "none")
    /\ \E cfg \in AppConfigs : ServerStart(cfg)
    /\ TickStart(NoSchedule, 0)

HealthNext ==
    \/ \E c \in ServerCheckIDs, success \in BOOLEAN :
          WorkerRun(c, success)
    \/ \E status \in {"Firing", "resolved"} :
          WorkerNotification("c1", status)
    \/ ReadyTick
    \/ \E fault \in HealthFaults : HandleHealth(fault)

HealthSpec == HealthInit /\ [][HealthNext]_vars

\* --------------------------------------------- worker: the check tickers
\* Runner.effectiveInterval
effectiveInterval(check) ==
    IF schedule[check].Set THEN schedule[check].Duration ELSE defaults

\* go r.runCheckLoop: the ticker is made and the check is executed once;
\* time.NewTicker panics on an interval that is not positive, and a panic
\* in a goroutine ends the process
StartCheckLoop(c) ==
    /\ workerPc[c] = "start"
    /\ LET interval == effectiveInterval(c)
       IN  IF interval <= 0
           THEN /\ workerPc' = [d \in TickChecks |-> "panic"]
                /\ UNCHANGED <<loopTicker, executed>>
           ELSE /\ workerPc' = [workerPc EXCEPT ![c] = "loop"]
                /\ loopTicker' = [loopTicker EXCEPT
                                    ![c] = [period |-> interval,
                                            since |-> wallClock]]
                /\ executed' = [executed EXCEPT ![c] = Append(@, wallClock)]
    /\ UNCHANGED <<schedule, defaults, wallClock, obsPc, work, seen, fetchNo>>
    /\ UNCHANGED <<matchVars, callVars, faultVars>>
    /\ UNCHANGED <<runnerVars, storeVars, execVars, readyVars, serverVars>>

\* a second passes; the loops whose ticker fires execute their check
TickerTick ==
    /\ wallClock < MaxTickTime
    /\ wallClock' = wallClock + 1
    /\ executed' =
          [c \in TickChecks |->
             IF /\ workerPc[c] = "loop"
                /\ (wallClock' - loopTicker[c].since) % loopTicker[c].period = 0
             THEN Append(executed[c], wallClock')
             ELSE executed[c]]
    /\ UNCHANGED <<schedule, defaults, workerPc, loopTicker, obsPc, work,
                   seen, fetchNo>>
    /\ UNCHANGED <<matchVars, callVars, faultVars>>
    /\ UNCHANGED <<runnerVars, storeVars, execVars, readyVars, serverVars>>

\* the worker with its checks' schedules, before Start
TickInit ==
    /\ RunnerStart(CheckConfig,
                   [c \in Checks |->
                      [Set |-> TRUE, Window |-> 1, FailCount |-> 1]])
    /\ StoreStart(NoStoreOptions)
    /\ ExecStart({"none"})
    /\ ReadyStart(NoServerConfig, "none")
    /\ ServerStart(NoAppConfig)
    /\ \E sched \in Schedules, dflt \in DefaultIntervals :
          TickStart(sched, dflt)

TickNext ==
    \/ \E c \in TickChecks : StartCheckLoop(c)
    \/ TickerTick

TickSpec == TickInit /\ [][TickNext]_vars

\* ------------------------------- worker: the hook cache under concurrency
\* applyResumeHooks: the CompleteHookExecution calls it makes, in order:
\* for each resume hook the pause hooks it overlaps that are not completed
\* yet, then the resume hook itself
RECURSIVE resumeWork(_, _, _)
resumeWork(resumeHooks, pauseHooks, completedPause) ==
    IF resumeHooks = <<>> THEN <<>>
    ELSE LET hit == SelectSeq(pauseHooks,
                      LAMBDA p : /\ p.ID \notin completedPause
                                 /\ hooksOverlap(resumeHooks[1], p))
             ids == [i \in DOMAIN hit |-> hit[i].ID]
         IN  ids \o << resumeHooks[1].ID >>
                 \o resumeWork(Tail(resumeHooks), pauseHooks,
                               completedPause \cup IDs(hit))

\* completePauseHooks: the hooks it completes among those applicable to
\* the check
cleanupWork(pauseHooks, check) ==
    LET applicable == SelectSeq(pauseHooks,
                         LAMBDA x : hookMatchesCheck(x, check))
        done == SelectSeq(applicable,
                          LAMBDA x : x.UntilFirstSuccess /\ x.Scope = "check")
    IN  [i \in DOMAIN done |-> done[i].ID]

\* the loop of check c calls fetchActiveHooks (under hookCacheMu) from
\* activePauseHooks; with recover it is inside completePauseHooks
ObserveHooks(c, recover) ==
    /\ obsPc[c] = "idle"
    /\ fetchNo[c] < MaxFetches
    /\ fetchNo' = [fetchNo EXCEPT ![c] = @ + 1]
    /\ LET f == fetchActiveHooks(HookSide, now)
           pauseHooks == SelectSeq(f.hooks,
                            LAMBDA x : x.Kind = "pause_notifications")
           resumeHooks == SelectSeq(f.hooks,
                            LAMBDA x : x.Kind = "resume_notifications")
           todo == IF resumeHooks # <<>>
                   THEN resumeWork(resumeHooks, pauseHooks, {})
                   ELSE IF recover
                   THEN cleanupWork(pauseHooks, ExecCheckConfig[c])
                   ELSE <<>>
       IN  /\ hookCache' = f.h.cache
           /\ hookCacheExpiry' = f.h.expiry
           /\ cacheLoadedAt' = f.h.loadedAt
           /\ seen' = [seen EXCEPT ![c] = IDs(f.hooks)]
           /\ work' = [work EXCEPT ![c] = todo]
           /\ obsPc' = [obsPc EXCEPT
                          ![c] = IF todo = <<>> THEN "idle" ELSE "complete"]
    /\ UNCHANGED <<now, failureRatio, state, hooks, outcomes, episode, ev,
                   sent, fetches, obs>>
    /\ UNCHANGED <<schedule, defaults, wallClock, workerPc, loopTicker,
                   executed>>
    /\ UNCHANGED <<matchVars, callVars, faultVars>>
    /\ UNCHANGED <<storeVars, execVars, readyVars, serverVars>>

\* the loop of check c makes its next CompleteHookExecution call
CompleteStep(c) ==
    /\ obsPc[c] = "complete"
    /\ hooks' = CompleteHookExecution(hooks, Head(work[c]))
    /\ work' = [work EXCEPT ![c] = Tail(@)]
    /\ obsPc' = [obsPc EXCEPT
                   ![c] = IF Tail(work[c]) = <<>> THEN "invalidate"
                          ELSE "complete"]
    /\ UNCHANGED <<now, failureRatio, state, hookCache, hookCacheExpiry,
                   cacheLoadedAt, outcomes, episode, ev, sent, fetches, obs>>
    /\ UNCHANGED <<schedule, defaults, wallClock, workerPc, loopTicker,
                   executed, seen, fetchNo>>
    /\ UNCHANGED <<matchVars, callVars, faultVars>>
    /\ UNCHANGED <<storeVars, execVars, readyVars, serverVars>>

\* the loop of check c calls invalidateHookCache
InvalidateStep(c) ==
    /\ obsPc[c] = "invalidate"
    /\ hookCache' = <<>>
    /\ hookCacheExpiry' = 0
    /\ cacheLoadedAt' = 0
    /\ obsPc' = [obsPc EXCEPT ![c] = "idle"]
    /\ UNCHANGED <<now, failureRatio, state, hooks, outcomes, episode, ev,
                   sent, fetches, obs>>
    /\ UNCHANGED <<schedule, defaults, wallClock, workerPc, loopTicker,
                   executed, work, seen, fetchNo>>
    /\ UNCHANGED <<matchVars, callVars, faultVars>>
    /\ UNCHANGED <<storeVars, execVars, readyVars, serverVars>>

\* two check loops over one store and one cache
CacheInit ==
    /\ RunnerStart(CheckConfig,
                   [c \in Checks |->
                      [Set |-> TRUE, Window |-> 1, FailCount |-> 1]])
    /\ StoreStart(NoStoreOptions)
    /\ ExecStart({"none"})
    /\ ReadyStart(NoServerConfig, "none")
    /\ ServerStart(NoAppConfig)
    /\ TickStart(NoSchedule, 0)

CacheNext ==
    \/ Tick
    \/ \E r \in Requests : Invoke(r.hookID, r.opts)
    \/ \E c \in ExecChecks, recover \in BOOLEAN : ObserveHooks(c, recover)
    \/ \E c \in ExecChecks : CompleteStep(c)
    \/ \E c \in ExecChecks : InvalidateStep(c)

CacheSpec == CacheInit /\ [][CacheNext]_vars

\* ----------------------------------------- worker: hookMatchesCheck
\* storage.HookExecution.Scope as stored
MatchScopes == {"global", " Global ", "check", "route", ""}

\* storage.HookExecution.TargetIDs as stored
MatchTargets ==
    { <<>>, <<"c1">>, <<"c2">>, <<"*">>, <<"r1">>, <<"", " c1 ">>,
      <<"c2", "*">>, <<" ">> }

\* config.CheckConfig: the id and the notification route
MatchChecks ==
    { [ID |-> "c1", Route |-> "r1"],
      [ID |-> "c2", Route |-> ""],
      [ID |-> "r1", Route |-> "c2"] }

\* applicablePauseHooks: one call of hookMatchesCheck
EvaluateHook ==
    /\ matched = <<>>
    /\ matched' = <<hookMatchesCheck(matchHook, matchCheck)>>
    /\ UNCHANGED <<matchHook, matchCheck, callVars, faultVars>>
    /\ UNCHANGED <<schedule, defaults, wallClock, workerPc, loopTicker,
                   executed, obsPc, work, seen, fetchNo>>
    /\ UNCHANGED <<runnerVars, storeVars, execVars, readyVars, serverVars>>

MatchInit ==
    /\ RunnerStart(CheckConfig,
                   [c \in Checks |->
                      [Set |-> TRUE, Window |-> 1, FailCount |-> 1]])
    /\ StoreStart(NoStoreOptions)
    /\ ExecStart({"none"})
    /\ ReadyStart(NoServerConfig, "none")
    /\ ServerStart(NoAppConfig)
    /\ LoopStart(NoSchedule, 0)
    /\ \E scope \in MatchScopes, targets \in MatchTargets,
          check \in MatchChecks :
          MatchStart([Scope |-> scope, TargetIDs |-> targets], check)
    /\ CallStart(NoCall)

MatchNext == EvaluateHook

MatchSpec == MatchInit /\ [][MatchNext]_vars

\* the rest of the system while one function is called
Idle ==
    /\ RunnerStart(CheckConfig,
                   [c \in Checks |->
                      [Set |-> TRUE, Window |-> 1, FailCount |-> 1]])
    /\ StoreStart(NoStoreOptions)
    /\ ExecStart({"none"})
    /\ ReadyStart(NoServerConfig, "none")
    /\ ServerStart(NoAppConfig)
    /\ LoopStart(NoSchedule, 0)
    /\ MatchStart(NoMatchHook, NoMatchCheck)

\* a call leaves everything but its result as it is
CallFrame ==
    /\ UNCHANGED <<callArgs, matchVars, faultVars>>
    /\ UNCHANGED <<schedule, defaults, wallClock, workerPc, loopTicker,
                   executed, obsPc, work, seen, fetchNo>>
    /\ UNCHANGED <<runnerVars, storeVars, execVars, readyVars, serverVars>>

\* -------------------------------------------- worker: applyAssertionSets
\* cfg.CheckAssertionSets of the configurations: the names defined
AssertionSetNames == {{}, {"s1"}, {"s1", "s2"}}

\* the assertions of the sets defined
AssertionSetBody(name) ==
    IF name = "s1" THEN <<"a1">> ELSE <<"a2", "a3">>

\* check.AssertionSets and check.Assertions of a check
AssertionRefs == {<<>>, <<"s1">>, <<"s2", "s1">>, <<"s3">>, <<"s1", "s3">>}

InlineAssertions == {<<>>, <<"b1">>}

\* the configurations handed to New: two checks
AssertionConfigs ==
    { [CheckAssertionSets |-> [n \in names |-> AssertionSetBody(n)],
       Checks |-> << [ID |-> "c1", AssertionSets |-> r1, Assertions |-> a1],
                     [ID |-> "c2", AssertionSets |-> r2,
                      Assertions |-> <<"b2">>] >>] :
        names \in AssertionSetNames, r1 \in AssertionRefs,
        r2 \in AssertionRefs, a1 \in InlineAssertions }

\* the loop over check.AssertionSets from set i on: the assertions
\* combined so far, or the unknown set name it stops at
RECURSIVE combineSets(_, _, _, _)
combineSets(sets, refs, i, combined) ==
    IF i > Len(refs) THEN [err |-> "", combined |-> combined]
    ELSE IF refs[i] \notin DOMAIN sets
         THEN [err |-> refs[i], combined |-> combined]
         ELSE combineSets(sets, refs, i + 1, combined \o sets[refs[i]])

\* the loop over cfg.Checks from check i on
RECURSIVE applyToChecks(_, _, _)
applyToChecks(sets, checks, i) ==
    IF i > Len(checks) THEN [err |-> "", checks |-> checks]
    ELSE IF Len(checks[i].AssertionSets) = 0
         THEN applyToChecks(sets, checks, i + 1)
         ELSE LET c == combineSets(sets, checks[i].AssertionSets, 1, <<>>)
              IN  IF c.err # "" THEN [err |-> c.err, checks |-> checks]
                  ELSE applyToChecks(sets,
                          [checks EXCEPT ![i].Assertions
                                            = c.combined \o @], i + 1)

\* applyAssertionSets: err is "" for nil
applyAssertionSets(cfg) ==
    IF DOMAIN cfg.CheckAssertionSets = {}
    THEN [err |-> "", checks |-> cfg.Checks]
    ELSE applyToChecks(cfg.CheckAssertionSets, cfg.Checks, 1)

\* runner.New: the error of applyAssertionSets is returned, else a runner
\* over the checks as applyAssertionSets left them
CallNew ==
    /\ callArgs.fn = "New"
    /\ callResult = <<>>
    /\ LET res == applyAssertionSets(callArgs.cfg)
       IN  callResult' = << [err |-> res.err,
                             checks |-> IF res.err = "" THEN res.checks
                                        ELSE <<>>] >>
    /\ CallFrame

NewInit ==
    /\ Idle
    /\ \E cfg \in AssertionConfigs :
          CallStart([fn |-> "New", cfg |-> cfg])

NewNext == CallNew

NewSpec == NewInit /\ [][NewNext]_vars

\* ----------------------------------------------- worker: runMetrics
\* the wall clock at the call
MetricsNow == 5

\* cfg.Metrics.MaxAge; Set = FALSE stands for nil as well
MaxAges ==
    { [Set |-> FALSE, Duration |-> 0], [Set |-> TRUE, Duration |-> 2],
      [Set |-> TRUE, Duration |-> 0] }

\* cfg.Metrics.Thresholds
MetricThresholds ==
    { <<>>,
      << [Name |-> "up", Op |-> "==", Value |-> 1] >>,
      << [Name |-> "up", Op |-> "==", Value |-> 1],
         [Name |-> "up", Op |-> "<", Value |-> 1] >>,
      << [Name |-> "load", Op |-> "<", Value |-> 5] >>,
      << [Name |-> "up", Op |-> "!=", Value |-> 0],
         [Name |-> "up", Op |-> ">", Value |-> 0] >>,
      << [Name |-> " ", Op |-> "==", Value |-> 1] >> }

\* what LatestNodeMetrics returns: <<>> for nil, else the snapshot; the
\* payload "up" has no value and does not parse; IngestedAt 0 is the zero
\* time
MetricSnapshots ==
    { <<>> } \cup
    { << [IngestedAt |-> a, Payload |-> p] >> :
        a \in {0, 1, 3, 5}, p \in {"up 1", "up 0", "up"} }

MetricsCalls ==
    { [fn |-> "runMetrics", now |-> MetricsNow, NodeID |-> n, Target |-> "",
       MaxAge |-> m, Thresholds |-> th, snapshot |-> sn] :
        n \in {"n1", " "}, m \in MaxAges, th \in MetricThresholds,
        sn \in MetricSnapshots }

\* parseMetricFamilies on the payloads of the model: metric name -> value
parseMetricFamilies(payload) ==
    CASE payload = "up 1" -> [err |-> FALSE, families |-> [m \in {"up"} |-> 1]]
      [] payload = "up 0" -> [err |-> FALSE, families |-> [m \in {"up"} |-> 0]]
      [] OTHER -> [err |-> TRUE, families |-> [m \in {} |-> 0]]

compareFloats(actual, expected, op) ==
    CASE op \in {"equals", "equal", "=="} -> actual = expected
      [] op \in {"less_than", "<"} -> actual < expected
      [] op \in {"greater_than", ">"} -> actual > expected
      [] op \in {"not_equals", "!="} -> actual # expected
      [] OTHER -> FALSE

\* evaluateMetricThreshold for a threshold without labels on a metric that
\* is not computed
evaluateMetricThreshold(families, threshold) ==
    LET assertion == [Kind |-> threshold.Name, Op |-> threshold.Op]
    IN  IF TrimSpace(threshold.Name) = ""
        THEN assertion @@ [Passed |-> FALSE]
        ELSE IF threshold.Name \notin DOMAIN families
        THEN assertion @@ [Passed |-> FALSE]
        ELSE assertion @@ [Passed |-> compareFloats(families[threshold.Name],
                                                 threshold.Value,
                                                 threshold.Op)]

allPassed(results) == \A i \in DOMAIN results : results[i].Passed

\* variant: a snapshot exactly max_age old is stale
stale_inclusive(maxAge, ingestedAt, t) ==
    ingestedAt = 0 \/ t - ingestedAt >= maxAge

\* runMetrics: snapshot.IngestedAt.IsZero() || time.Since(..) > maxAge
stale(maxAge, ingestedAt, t) ==
    ingestedAt = 0 \/ t - ingestedAt > maxAge

\* runMetrics with a store; Error "" is nil
runMetrics(a) ==
    LET res == [Success |-> FALSE, Error |-> "", AssertionResults |-> <<>>]
        nodeID == IF TrimSpace(a.NodeID) = "" THEN TrimSpace(a.Target)
                  ELSE TrimSpace(a.NodeID)
    IN  IF Len(a.Thresholds) = 0
        THEN [res EXCEPT !.Error = "no metrics thresholds configured"]
        ELSE IF nodeID = ""
        THEN [res EXCEPT !.Error = "node id or target is required"]
        ELSE IF a.snapshot = <<>>
        THEN [res EXCEPT !.Error = "no metrics available"]
        ELSE IF a.MaxAge.Set
                /\ stale(a.MaxAge.Duration, a.snapshot[1].IngestedAt, a.now)
        THEN [res EXCEPT
                !.AssertionResults =
                    << [Kind |-> "freshness", Op |-> "max_age",
                        Passed |-> FALSE] >>]
        ELSE LET parsed == parseMetricFamilies(a.snapshot[1].Payload)
                 results == [i \in DOMAIN a.Thresholds |->
                               evaluateMetricThreshold(parsed.families,
                                                       a.Thresholds[i])]
             IN  IF parsed.err
                 THEN [res EXCEPT !.Error = "parse metrics payload"]
                 ELSE [res EXCEPT !.AssertionResults = results,
                                  !.Success = allPassed(results)]

\* checks.Execute on a metrics check
CallRunMetrics ==
    /\ callArgs.fn = "runMetrics"
    /\ callResult = <<>>
    /\ callResult' = << runMetrics(callArgs) >>
    /\ CallFrame

RunMetricsInit ==
    /\ Idle
    /\ \E a \in MetricsCalls : CallStart(a)

RunMetricsNext == CallRunMetrics

RunMetricsSpec == RunMetricsInit /\ [][RunMetricsNext]_vars

\* ------------------------------------------ server: ensureCheckIDLabel
\* A line is the sequence of its pieces: a blank or a tab, a brace, a
\* comma, or a run of other characters; a payload is the sequence of its
\* lines (strings.Split on the newline), the empty payload one empty line.
IsBlank(piece) == piece \in {" ", "\t"}

\* strings.Contains(piece, "check_id=")
ContainsCheckID(piece) ==
    piece \in {"check_id=\"abc\"", "check_id=\"old\"",
               "precheck_id=\"z\""}

\* the lines of the model
PayloadLines ==
    { <<"m", " ", "1">>,
      <<"m", "{", "e=\"p\"", "}", " ", "1">>,
      <<"#", " ", "HELP">>,
      <<>>,
      <<"\t">>,
      <<"m", "{", "check_id=\"old\"", ",", "e=\"p\"", "}", " ", "1">>,
      <<"m", "{", "e=\"a", " ", "b\"", "}", " ", "1">>,
      <<" ", "m", "\t", "1">>,
      <<"m", "{", "}", " ", "1">>,
      <<"m">>,
      <<"m", "{", "precheck_id=\"z\"", "}", " ", "1">> }

Payloads ==
    { <<l>> : l \in PayloadLines }
       \cup { <<l1, l2>> : l1 \in PayloadLines, l2 \in PayloadLines }

LabelCheckIDs == {"abc", " abc ", "", " "}

\* strings.TrimSpace on a check id
TrimID(id) ==
    CASE id = " abc " -> "abc"
      [] id = " " -> ""
      [] OTHER -> id

\* fmt.Sprintf(`check_id="%s"`, promLabelValue(checkID))
checkLabelOf(checkID) ==
    IF checkID = "abc" THEN "check_id=\"abc\""
    ELSE "check_id=\"" \o checkID \o "\""

\* strings.TrimLeft(line, " \t")
RECURSIVE TrimLeft(_)
TrimLeft(line) ==
    IF line = <<>> THEN <<>>
    ELSE IF IsBlank(Head(line)) THEN TrimLeft(Tail(line)) ELSE line

\* strings.IndexAny(rest, " \t"), counted from 1; 0 for -1
IndexAnyBlank(rest) ==
    IF \E i \in DOMAIN rest : IsBlank(rest[i])
    THEN CHOOSE i \in DOMAIN rest :
            IsBlank(rest[i]) /\ \A j \in 1..(i - 1) : ~IsBlank(rest[j])
    ELSE 0

\* strings.Index(part, piece), counted from 1; 0 for -1
IndexOf(part, piece) ==
    IF \E i \in DOMAIN part : part[i] = piece
    THEN CHOOSE i \in DOMAIN part :
            part[i] = piece /\ \A j \in 1..(i - 1) : part[j] # piece
    ELSE 0

\* strings.LastIndex(part, piece), counted from 1; 0 for -1
LastIndexOf(part, piece) ==
    IF \E i \in DOMAIN part : part[i] = piece
    THEN CHOOSE i \in DOMAIN part :
            part[i] = piece /\ \A j \in (i + 1)..Len(part) : part[j] # piece
    ELSE 0

\* strings.Contains(metricPart, "check_id=")
carriesCheckID(metricPart) ==
    \E i \in DOMAIN metricPart : ContainsCheckID(metricPart[i])

\* the body of the loop of ensureCheckIDLabel for one line
labelLine(line, checkLabel) ==
    LET rest == TrimLeft(line)
        leading == SubSeq(line, 1, Len(line) - Len(rest))
        whitespacePos == IndexAnyBlank(rest)
        metricPart == SubSeq(rest, 1, whitespacePos - 1)
        valuePart == SubSeq(rest, whitespacePos, Len(rest))
        bracePos == IndexOf(metricPart, "{")
        closePos == LastIndexOf(metricPart, "}")
        prefix == SubSeq(metricPart, 1, closePos - 1)
        suffix == SubSeq(metricPart, closePos, Len(metricPart))
    IN  IF rest = <<>> \/ Head(rest) = "#" THEN line
        ELSE IF whitespacePos = 0 THEN line
        ELSE IF carriesCheckID(metricPart) THEN line
        ELSE IF bracePos # 0
        THEN IF closePos = 0 \/ closePos < bracePos THEN line
             ELSE IF Last(prefix) = "{"
             THEN leading \o prefix \o <<checkLabel>> \o suffix
                     \o valuePart
             ELSE leading \o prefix \o <<",", checkLabel>> \o suffix
                     \o valuePart
        ELSE leading \o metricPart \o <<"{", checkLabel, "}">>
                \o valuePart

ensureCheckIDLabel(payload, checkID) ==
    LET id == TrimID(checkID)
    IN  IF payload = << <<>> >> \/ id = "" THEN payload
        ELSE [i \in DOMAIN payload |->
                labelLine(payload[i], checkLabelOf(id))]

\* handleNodeMetrics decorates a payload; a second call decorates what the
\* first returned
CallEnsureCheckIDLabel ==
    /\ callArgs.fn = "ensureCheckIDLabel"
    /\ Len(callResult) < 2
    /\ callResult' =
          Append(callResult,
                 ensureCheckIDLabel(IF callResult = <<>> THEN callArgs.payload
                                    ELSE Last(callResult),
                                    callArgs.checkID))
    /\ CallFrame

LabelInit ==
    /\ Idle
    /\ \E payload \in Payloads, id \in LabelCheckIDs :
          CallStart([fn |-> "ensureCheckIDLabel", payload |-> payload,
                     checkID |-> id])

LabelNext == CallEnsureCheckIDLabel

LabelSpec == LabelInit /\ [][LabelNext]_vars

\* ------------------------------------------- server: POST /api/hook/{id}
\* Routes: RealIP, ipAllowMiddleware, handleHook; the server answers
\* request r (fault: the outcome of the INSERT)
ServeHook(r, fault) ==
    /\ served < MaxHookRequests
    /\ served' = served + 1
    /\ request' = << r >>
    /\ LET req == RealIP(r)
           mw == ipAllowMiddleware(req, allowlist, trustedProxies)
           res == handleHook(req, mw.ipStr, hooks, readyNow, fault)
       IN  IF mw.allowed
           THEN /\ hooks' = res.table
                /\ response' = << [path |-> "/api/hook", code |-> res.code,
                                   client_ip |-> mw.ipStr,
                                   exec |-> res.exec] >>
           ELSE /\ hooks' = hooks
                /\ response' = << [path |-> "/api/hook", code |-> 403,
                                   client_ip |-> mw.ipStr, exec |-> <<>>] >>
    /\ UNCHANGED <<now, failureRatio, state, hookCache, hookCacheExpiry,
                   cacheLoadedAt, outcomes, episode, ev, sent, fetches, obs>>
    /\ UNCHANGED <<metricsCfg, listen, appPc, promConfigPath, promConfigAt,
                   promConfigTargets, promConfigErr, disk, generated,
                   readyNow>>
    /\ UNCHANGED <<healthCfg, allowlist, trustedProxies, hookConfigs,
                   hookAllowlist>>
    /\ UNCHANGED tickVars
    /\ UNCHANGED <<storeVars, execVars>>

\* ---------------------------------------- server: POST /api/ingest/{id}
maxIngestPayloadBytes == 2 * 1024 * 1024

\* gzip.NewReader and io.ReadAll on the bodies of the model
Gunzip(data) ==
    CASE data = "gz:up 1" -> [err |-> FALSE, data |-> "up 1"]
      [] data = "gz: " -> [err |-> FALSE, data |-> " "]
      [] OTHER -> [err |-> TRUE, data |-> ""]

\* variant: an unknown Content-Encoding is taken as identity
decodeMetricsPayload_anyEncoding(data, contentEncoding) ==
    LET encoding == ToLower(TrimSpace(contentEncoding))
    IN  IF encoding = "gzip" THEN Gunzip(data)
        ELSE [err |-> FALSE, data |-> data]

\* decodeMetricsPayload
decodeMetricsPayload(data, contentEncoding) ==
    LET encoding == ToLower(TrimSpace(contentEncoding))
    IN  IF encoding \in {"", "identity"} THEN [err |-> FALSE, data |-> data]
        ELSE IF encoding = "gzip" THEN Gunzip(data)
        ELSE [err |-> TRUE, data |-> ""]

\* handleIngestMetrics behind the middleware: the status code and the
\* node_metrics table
handleIngestMetrics(r, clientIPStr, rows, t, fault) ==
    LET nodeID == TrimSpace(r.nodeID)
        payload == decodeMetricsPayload(r.Body.Raw, r.ContentEncoding)
        metrics == TrimSpace(payload.data)
        snapshot == [NodeID |-> nodeID, Payload |-> metrics,
                     SourceIP |-> clientIPStr, IngestedAt |-> t]
        res == UpsertNodeMetrics(rows, snapshot, t, fault)
        no(code) == [code |-> code, rows |-> rows]
    IN  IF nodeID = "" THEN no(400)
        ELSE IF r.Body.Bytes > maxIngestPayloadBytes THEN no(413)
        ELSE IF payload.err THEN no(400)
        ELSE IF metrics = "" THEN no(400)
        ELSE IF res.err THEN no(500)
        ELSE [code |-> 202, rows |-> res.rows]

\* Routes: RealIP, ipAllowMiddleware, handleIngestMetrics; the server
\* answers request r (fault: the outcome of the upsert)
ServeIngest(r, fault) ==
    /\ served < MaxIngestRequests
    /\ served' = served + 1
    /\ request' = << r >>
    /\ LET req == RealIP(r)
           mw == ipAllowMiddleware(req, allowlist, trustedProxies)
           res == handleIngestMetrics(req, mw.ipStr, node_metrics,
                                      readyNow, fault)
       IN  IF mw.allowed
           THEN /\ node_metrics' = res.rows
                /\ response' = << [path |-> "/api/ingest",
                                   code |-> res.code,
                                   client_ip |-> mw.ipStr] >>
           ELSE /\ node_metrics' = node_metrics
                /\ response' = << [path |-> "/api/ingest", code |-> 403,
                                   client_ip |-> mw.ipStr] >>
    /\ UNCHANGED <<storeOptions, checkStateLimit, notificationLimit,
                   check_states, notification_logs, inserted, upserts,
                   lastOp>>
    /\ UNCHANGED <<metricsCfg, listen, appPc, promConfigPath, promConfigAt,
                   promConfigTargets, promConfigErr, disk, generated,
                   readyNow>>
    /\ UNCHANGED <<healthCfg, allowlist, trustedProxies, hookConfigs,
                   hookAllowlist>>
    /\ UNCHANGED tickVars
    /\ UNCHANGED <<runnerVars, execVars>>

\* the server with nothing but its ingest endpoint in use
IngestInit ==
    /\ RunnerStart(CheckConfig,
                   [c \in Checks |->
                      [Set |-> TRUE, Window |-> 1, FailCount |-> 1]])
    /\ StoreStart(NoStoreOptions)
    /\ ExecStart({"none"})
    /\ ReadyStart(NoServerConfig, "none")
    /\ ServerStart(NoAppConfig)
    /\ TickStart(NoSchedule, 0)

IngestNext ==
    \/ ReadyTick
    \/ \E r \in IngestRequests, fault \in {"none", "exec"} :
          ServeIngest(r, fault)

IngestSpec == IngestInit /\ [][IngestNext]_vars

\* the server with its hooks and its access configuration
HookInit ==
    /\ RunnerStart(CheckConfig,
                   [c \in Checks |->
                      [Set |-> TRUE, Window |-> 1, FailCount |-> 1]])
    /\ StoreStart(NoStoreOptions)
    /\ ExecStart({"none"})
    /\ ReadyStart(NoServerConfig, "none")
    /\ \E cfg \in AccessConfigs : ServerStart(cfg)
    /\ TickStart(NoSchedule, 0)

HookNext ==
    \/ ReadyTick
    \/ \E r \in HookRequests, fault \in {"none", "insert"} :
          ServeHook(r, fault)

HookSpec == HookInit /\ [][HookNext]_vars

\* ============================================================== properties
OneShotStages(c) ==
    {i \in StageIdx(CheckConfig[c]) :
        Policies[CheckConfig[c].Route].Stages[i].Every <= 0}

RepeatingStages(c) ==
    {i \in StageIdx(CheckConfig[c]) :
        Policies[CheckConfig[c].Route].Stages[i].Every > 0}

StageOf(c, i) == Policies[CheckConfig[c].Route].Stages[i]

\* stage i of check c was dispatched by the last step
Dispatched(c, i) ==
    \E k \in DOMAIN sent :
        sent[k].check = c /\ sent[k].kind = "stage" /\ sent[k].stage = i

\* a pause hook whose scope and targets match check c
PauseMatches(row, c) ==
    /\ row.Kind = "pause_notifications"
    /\ \/ row.Scope = "global"
       \/ "*" \in Range(row.TargetIDs)
       \/ (row.Scope = "check" /\ c \in Range(row.TargetIDs))
       \/ (row.Scope = "route" /\ CheckConfig[c].Route \in Range(row.TargetIDs))

\* a pause hook that is active in the store now and matches check c
ActivePause(row, c) ==
    /\ PauseMatches(row, c)
    /\ row.Status = "active"
    /\ (row.ActiveUntil = 0 \/ row.ActiveUntil >= now)

\* ----------------------------------------------------------------------- C1
\* C1: after each update of a check with failure_ratio {window W,
\* fail_count K} the check is failing iff the last W outcomes (all of them
\* when fewer than W exist) contain at least K failures; else it is healthy.
C1_FailingIffThreshold ==
    \A c \in Checks :
        Len(outcomes[c]) > 0 =>
            LET W == failureRatio[c].Window
                K == failureRatio[c].FailCount
                lastW == Suffix(outcomes[c], Min(W, Len(outcomes[c])))
            IN  state[c].Failing <=> (CountTrue(lastW) >= K)

\* a check stays failing although its last outcome was a success
C1_Witness ==
    \E c \in Checks :
        /\ failureRatio[c].Window = 2 /\ failureRatio[c].FailCount = 1
        /\ outcomes[c] = <<TRUE, FALSE>>
        /\ state[c].Failing

\* ----------------------------------------------------------------------- C2
\* C2: while an active pause hook matches a check -- here even one that the
\* worker's own observation in that update returned -- no notification of
\* any kind (initial, escalation stage, resolve) is dispatched for the check.
C2_NoDispatchWhilePaused ==
    \A k \in DOMAIN sent :
        ~ \E i \in DOMAIN hooks :
              /\ ActivePause(hooks[i], sent[k].check)
              /\ \E j \in DOMAIN obs : i \in obs[j].returned

\* ----------------------------------------------------------------------- C3
\* C3 as stated: a one-shot stage with after = A is dispatched exactly once
\* in a failing episode, at the first evaluation with now - first_failure_at
\* >= A: every failing evaluation with elapsed >= A leaves the stage
\* dispatched once, and it is dispatched at no other evaluation.
C3_OneShotAtFirstDue ==
    \A e \in Range(ev) : \A i \in OneShotStages(e.check) :
        /\ (e.nowFailing /\ e.at - e.before.start >= StageOf(e.check, i).After)
              => episode[e.check].stageCount[i] = 1
        /\ Dispatched(e.check, i)
              => e.at - e.before.start >= StageOf(e.check, i).After

\* C3 amended: a one-shot stage is dispatched exactly once in a failing
\* episode, at the first evaluation with elapsed >= A at which no matching
\* pause hook is observed, and never again until a new episode.
C3_OneShotAtFirstUnpausedDue ==
    /\ \A c \in Checks : \A i \in OneShotStages(c) :
          episode[c].stageCount[i] <= 1
    /\ \A e \in Range(ev) : \A i \in OneShotStages(e.check) :
          /\ (e.nowFailing /\ ~e.paused
                /\ e.at - e.before.start >= StageOf(e.check, i).After)
                => episode[e.check].stageCount[i] = 1
          /\ Dispatched(e.check, i)
                => /\ e.at - e.before.start >= StageOf(e.check, i).After
                   /\ ~e.paused
                   /\ e.before.stageCount[i] = 0

\* a later unpaused evaluation of the episode does not repeat the stage
C3_Witness ==
    \E e \in Range(ev) : \E i \in OneShotStages(e.check) :
        /\ e.nowFailing /\ ~e.paused
        /\ e.before.stageCount[i] = 1
        /\ e.before.stageLast[i] < e.at
        /\ e.before.suppressed[i] = FALSE
        /\ episode[e.check].stageCount[i] = 1

\* ----------------------------------------------------------------------- C4
\* C4 as stated: a repeating stage (after = A, every = E) of a check that
\* stays failing is dispatched at first_failure_at + A, + A + E, + A + 2E...:
\* its n-th repeat is sent at the first unpaused evaluation at or after
\* first_failure_at + A + n*E, and at no evaluation before that instant.
C4_RepeatOnSchedule ==
    \A e \in Range(ev) : \A i \in RepeatingStages(e.check) :
        LET A == StageOf(e.check, i).After
            E == StageOf(e.check, i).Every
            due == e.before.start + A + e.before.stageCount[i] * E
        IN  /\ (e.nowFailing /\ ~e.paused /\ e.at >= due)
                  => Dispatched(e.check, i)
            /\ Dispatched(e.check, i) => e.at >= due

\* C4 amended: a repeating stage is dispatched at the first unpaused
\* evaluation with elapsed >= A and then at each later unpaused evaluation
\* at which at least E has passed since the stage's previous dispatch; it is
\* never dispatched before elapsed >= A and two successive dispatches of the
\* stage are never less than E apart.
C4_RepeatAfterLastSend ==
    \A e \in Range(ev) : \A i \in RepeatingStages(e.check) :
        LET A == StageOf(e.check, i).After
            E == StageOf(e.check, i).Every
            ready == /\ e.at - e.before.start >= A
                     /\ \/ e.before.stageCount[i] = 0
                        \/ e.at - e.before.stageLast[i] >= E
        IN  Dispatched(e.check, i) <=> (e.nowFailing /\ ~e.paused /\ ready)

\* the stage is sent again, exactly E after its previous dispatch
C4_Witness ==
    \E e \in Range(ev) : \E i \in RepeatingStages(e.check) :
        /\ Dispatched(e.check, i)
        /\ e.before.stageCount[i] >= 1
        /\ e.at - e.before.stageLast[i] = StageOf(e.check, i).Every

\* ----------------------------------------------------------------------- C5
\* C5: after a healthy->failing transition the check's initial notifiers
\* are dispatched at most once during that failing episode, whatever the
\* later failing results and the pause/resume hook activity.
C5_InitialAtMostOnce ==
    \A c \in Checks : episode[c].initCount <= 1

\* a later failing evaluation of the episode, with hooks around, after the
\* initial notifiers went out
C5_Witness ==
    \E e \in Range(ev) :
        /\ e.nowFailing /\ e.prevFailing
        /\ e.before.initCount = 1
        /\ ~ \E k \in DOMAIN sent : sent[k].kind = "initial"
        /\ Len(hooks) > 0
        /\ Len(obs) > 0

\* ----------------------------------------------------------------------- C6
\* the overlap of a resume hook and a pause hook, in the words of the claim
ClaimOverlap(resume, pause) ==
    \/ "*" \in Range(resume.TargetIDs)
    \/ "*" \in Range(pause.TargetIDs)
    \/ (resume.TargetIDs = <<>> /\ resume.Scope = "global")
    \/ \E x \in Range(resume.TargetIDs) :
          x # "" /\ x \in Range(pause.TargetIDs)
    \/ resume.Scope = "global"
    \/ pause.Scope = "global"
    \/ resume.Scope = pause.Scope

C7_HookStatusOneWay ==
    [][ /\ \A i \in DOMAIN hooks :
             /\ i \in DOMAIN hooks'
             /\ hooks'[i].Status \in {"active", "completed"}
             /\ hooks[i].Status = "completed" => hooks'[i].Status = "completed"
        /\ \A i \in DOMAIN hooks' \ DOMAIN hooks :
             hooks'[i].Status = "active" ]_vars

\* a row was completed by the worker and the server inserted the same hook
\* again afterwards
C7_Witness ==
    /\ Len(hooks) = 2
    /\ hooks[1].Status = "completed"
    /\ hooks[2].Status = "active"
    /\ hooks[1].HookID = hooks[2].HookID

C9_DispatchOnceUnpaused ==
    \A e \in Range(ev) :
        ( /\ e.nowFailing
          /\ ~ \E i \in DOMAIN hooks : ActivePause(hooks[i], e.check) )
        => \A s \in StageIdx(CheckConfig[e.check]) :
              e.before.suppressed[s] => Dispatched(e.check, s)

\* C9 amended: once the matching pause hooks have been cancelled by a resume
\* hook (completed) or have expired, the first evaluation of a still failing
\* check at which the worker's observation returns no matching pause hook
\* -- at the latest the first one made CacheTTL after the expiry -- dispatches
\* every suppressed stage; suppression never marks a stage as sent.
C9_DispatchOnceUnobserved ==
    \A e \in Range(ev) :
        /\ ( /\ e.nowFailing
             /\ \A i \in DOMAIN hooks :
                   PauseMatches(hooks[i], e.check)
                      => \/ hooks[i].Status = "completed"
                         \/ /\ hooks[i].ActiveUntil # 0
                            /\ hooks[i].ActiveUntil + CacheTTL <= e.at )
           => ~e.paused
        /\ (e.nowFailing /\ ~e.paused)
           => \A s \in StageIdx(CheckConfig[e.check]) :
                 e.before.suppressed[s] => Dispatched(e.check, s)

\* a stage suppressed by a pause hook goes out once the hook has been
\* expired for CacheTTL
C9_Witness ==
    \E e \in Range(ev) : \E s \in StageIdx(CheckConfig[e.check]) :
        /\ e.before.suppressed[s]
        /\ Dispatched(e.check, s)
        /\ \E i \in DOMAIN hooks :
              /\ hooks[i].Kind = "pause_notifications"
              /\ hooks[i].Status = "active"
              /\ hooks[i].ActiveUntil # 0
              /\ hooks[i].ActiveUntil + CacheTTL <= e.at

\* ---------------------------------------------------------------------- C10
ResolvedCount(s, c) ==
    Cardinality({k \in DOMAIN s : s[k].check = c /\ s[k].status = "resolved"})

\* C10: on every failing->healthy transition of a check the policy's
\* resolve notifiers are dispatched exactly once with status = resolved, and
\* no update that is not such a transition dispatches a resolved event.
C10_ResolveOnRecovery ==
    [][ \A c \in Checks :
           /\ ResolvedCount(sent', c) =
                 IF state[c].Failing /\ ~state'[c].Failing THEN 1 ELSE 0
           /\ \A k \in DOMAIN sent' :
                 (sent'[k].check = c /\ sent'[k].status = "resolved")
                    => sent'[k].ids =
                          Policies[CheckConfig[c].Route].ResolveNotifiers ]_vars

\* a recovery that dispatched the resolve notifiers
C10_Witness ==
    \E e \in Range(ev) :
        /\ e.prevFailing /\ ~e.nowFailing
        /\ \E k \in DOMAIN sent :
              sent[k].status = "resolved" /\ sent[k].ids = <<"n_res">>

\* ---------------------------------------------------------------------- C11
\* C11: when a check goes from failing to healthy, every active pause hook
\* that matches the check and has until_first_success = true with scope =
\* check is completed by that update -- also one inserted less than the
\* cache TTL before the recovery -- and the hook cache is invalidated.
C11_RecoveryCompletesPause ==
    \A e \in Range(ev) :
        (e.prevFailing /\ ~e.nowFailing) =>
            \A i \in DOMAIN hooks :
                (/\ ActivePause(hooks[i], e.check)
                 /\ hooks[i].UntilFirstSuccess
                 /\ hooks[i].Scope = "check")
                    => FALSE

\* ---------------------------------------------------------------------- C12
\* the retention limit a configured value stands for
Retention(configured, default) ==
    IF configured > 0 THEN configured ELSE default

RowsOf(c) ==
    {check_states.rows[i].id :
        i \in {j \in DOMAIN check_states.rows :
                 check_states.rows[j].check_id = c}}

\* C12: after any sequence of insertions, at every commit point, each check
\* has at most check_state_retention (default 30) check-run rows and the
\* notification log has at most notification_log_retention (default 100)
\* rows overall.
C12_RetentionBounds ==
    /\ \A c \in StoreChecks :
          Cardinality(RowsOf(c))
             <= Retention(storeOptions.CheckStateRetention, 30)
    /\ Len(notification_logs.rows)
          <= Retention(storeOptions.NotificationRetention, 100)

\* both tables have been pruned down to their limits
C12_Witness ==
    /\ storeOptions.CheckStateRetention = 2
    /\ Len(inserted["c1"]) = 3
    /\ Cardinality(RowsOf("c1")) = 2
    /\ storeOptions.NotificationRetention = 1
    /\ notification_logs.seq = 2
    /\ Len(notification_logs.rows) = 1

\* ---------------------------------------------------------------------- C13
\* C13: recording a check run keeps, for every check, exactly its most
\* recently inserted min(n, limit) runs: it removes no run among the limit
\* most recent ones of the check and no row of another check; a call whose
\* insert, prune or commit fails leaves the table unchanged.
C13_KeepsMostRecentRuns ==
    [][ /\ \A c \in StoreChecks :
              LET limit == Retention(storeOptions.CheckStateRetention, 30)
                  n == Len(inserted'[c])
                  newest == Suffix(inserted'[c], Min(n, limit))
                  kept == {check_states'.rows[i].id :
                             i \in {j \in DOMAIN check_states'.rows :
                                      check_states'.rows[j].check_id = c}}
              IN  /\ kept = Range(newest)
                  /\ (lastOp'.op = "RecordCheckRun" /\ lastOp'.check # c)
                        => kept = RowsOf(c)
        /\ (lastOp'.op = "RecordCheckRun" /\ lastOp'.err)
              => check_states' = check_states ]_vars

\* the oldest run of c1 was pruned while the older row of c2 was kept
C13_Witness ==
    /\ storeOptions.CheckStateRetention = 2
    /\ inserted["c2"] = <<1>>
    /\ inserted["c1"] = <<2, 3, 4>>
    /\ RowsOf("c1") = {3, 4}
    /\ RowsOf("c2") = {1}

\* ---------------------------------------------------------------------- C14
\* C14: the table holds at most one row per node, and a reader gets payload
\* and ingested_at written by one and the same upsert: the snapshot of the
\* latest committed upsert of the node in its entirety, or none when the
\* node has no snapshot.
C14_SnapshotAtomic ==
    /\ \A n \in Nodes :
          Cardinality({i \in DOMAIN node_metrics :
                         node_metrics[i].node_id = n}) <= 1
    /\ (lastOp.op = "LatestNodeMetrics" /\ ~lastOp.err) =>
          IF upserts[lastOp.node] = <<>> THEN lastOp.snapshot = <<>>
          ELSE /\ Len(lastOp.snapshot) = 1
               /\ lastOp.found = 1
               /\ [Payload |-> lastOp.snapshot[1].Payload,
                   IngestedAt |-> lastOp.snapshot[1].IngestedAt]
                     = Last(upserts[lastOp.node])

\* a read after a second upsert that changed both payload and timestamp
C14_Witness ==
    /\ lastOp.op = "LatestNodeMetrics"
    /\ lastOp.node = "n1"
    /\ Len(upserts["n1"]) = 2
    /\ upserts["n1"][1].Payload # upserts["n1"][2].Payload
    /\ upserts["n1"][1].IngestedAt # upserts["n1"][2].IngestedAt
    /\ Len(lastOp.snapshot) = 1
    /\ lastOp.snapshot[1].Payload = upserts["n1"][2].Payload
    /\ lastOp.snapshot[1].IngestedAt = upserts["n1"][2].IngestedAt

RowFor(g) ==
    \E i \in DOMAIN notification_logs.rows :
        LET row == notification_logs.rows[i]
        IN  /\ row.notifier_id = g.notifier
            /\ row.check_id = g.check
            /\ row.run_id = <<g.run, g.ev>>
            /\ row.status = g.status

C17_OneExecutionPerCheck ==
    \A c \in ExecChecks : calls[c] <= 1

\* both checks are probing at once, and a tick of c1 waits for its execution
C17_Witness ==
    /\ execPc["c1"] = "probing"
    /\ execPc["c2"] = "probing"
    /\ ticker["c1"]
    /\ calls["c1"] = 1

\* ---------------------------------------------------------------------- C18
\* C18: after the shutdown signal every check loop eventually exits, each
\* only once its current execution has returned, and Start returns, only
\* after all loops have exited; a loop that has observed the cancellation
\* starts no further probe attempt.
C18_ShutdownEndsLoops ==
    /\ \A c \in ExecChecks : cancelled ~> (loopPc[c] = "exited")
    /\ cancelled ~> (startPc = "returned")
    /\ [](\A c \in ExecChecks : loopPc[c] = "exited" => calls[c] = 0)
    /\ [](startPc = "returned" => \A c \in ExecChecks : loopPc[c] = "exited")
    /\ [][ \A c \in ExecChecks :
              observed[c] =>
                 ~(execPc[c] # "probing" /\ execPc'[c] = "probing") ]_vars

\* Start has returned after c1 gave up its execution between two attempts
C18_Witness ==
    /\ startPc = "returned"
    /\ runNo["c1"] = 1
    /\ attempt["c1"] = 1
    /\ persistedRun["c1"].run = 0
    /\ observed["c1"]

\* ---------------------------------------------------------------------- C19
\* a moment inside a configured maintenance window: a closed-open range,
\* or within duration of a firing of the cron schedule
InsideWindow(t) ==
    \E i \in DOMAIN MaintenanceWindows :
        LET m == MaintenanceWindows[i]
        IN  \/ m.kind = "range" /\ m.start <= t /\ t < m.end
            \/ /\ m.kind = "cron"
               /\ \E k \in 0..t :
                     /\ m.phase + k * m.period <= t
                     /\ t < m.phase + k * m.period + m.duration

\* C19: an execution whose tick falls inside a maintenance window is
\* skipped: no probe attempt is made, no check-run row is written, the
\* check's state is left unchanged and no notification is dispatched.
C19_MaintenanceSkips ==
    [][ \A c \in ExecChecks :
           (execPc[c] = "enter" /\ execPc'[c] # "enter" /\ InsideWindow(now))
              => /\ execPc'[c] = "none"
                 /\ calls'[c] = calls[c] - 1
                 /\ UNCHANGED <<state, check_states, notification_logs,
                                notifying, pending, runNo, persistedRun,
                                updatedRun, hooks>> ]_vars

\* the tick of c1 at time 3, inside the cron window, was taken and skipped
\* while c1 is failing
C19_Witness ==
    /\ now = 3
    /\ InsideWindow(now)
    /\ loopPc["c1"] = "loop"
    /\ runNo["c1"] >= 1
    /\ state["c1"].Failing
    /\ execPc["c1"] = "none"
    /\ ~ticker["c1"]

\* ---------------------------------------------------------------------- C20
\* the scrape configuration was generated successfully at startup
GeneratedAtStartup ==
    appPc = "started" /\ generated

HealthyNow ==
    \E latest \in [ServerCheckIDs -> UNION
                     {LatestCheckRun(check_states.rows, c) :
                        c \in ServerCheckIDs}],
       logs \in RecentNotificationLogs(notification_logs.rows,
                                       healthCfg.NotificationErrorLookback) :
       /\ \A c \in ServerCheckIDs :
             latest[c] \in LatestCheckRun(check_states.rows, c)
       /\ healthSnapshot(healthCfg, check_states.rows, latest, logs, readyNow,
                         [op |-> "none", check |-> ""]).Status = statusOK

\* C21: GET /readiness never answers 200 while the health evaluation of the
\* server (database, checks, notifications) is not ok.
C21_ReadyOnlyWhenHealthy ==
    [][ (served' = served + 1 /\ response'[1].path = "/readiness"
         /\ response'[1].code = 200) => HealthyNow ]_vars

\* ---------------------------------------------------------------------- C27
\* the order critical > warn > ok
StatusRank(st) ==
    CASE st = statusCritical -> 2
      [] st = statusWarn -> 1
      [] OTHER -> 0

\* the component statuses of a health response
ComponentStatuses(r) ==
    {r.database, r.notifications} \cup Range(r.checks)

\* C27: GET /healthcheck answers 200 iff the database ping, the status of
\* every configured check and the notification component are all ok, and
\* 503 otherwise; the overall status is the greatest component status in
\* the order critical > warn > ok.
C27_HealthIffAllOk ==
    \A k \in DOMAIN response :
        LET r == response[k]
        IN  r.path = "/healthcheck" =>
               /\ DOMAIN r.checks = DOMAIN ServerChecks
               /\ r.code \in {200, 503}
               /\ r.code = 200 <=>
                     \A st \in ComponentStatuses(r) : st = statusOK
               /\ r.status \in ComponentStatuses(r)
               /\ \A st \in ComponentStatuses(r) :
                     StatusRank(st) <= StatusRank(r.status)

\* a health request answered 503 with status warn only because the latest
\* run of c1 is older than its window
C27_Witness ==
    /\ Len(response) = 1
    /\ response[1].path = "/healthcheck"
    /\ response[1].code = 503
    /\ response[1].status = statusWarn
    /\ response[1].database = statusOK
    /\ response[1].notifications = statusOK
    /\ response[1].checks = <<statusWarn, statusOK>>
    /\ \E i \in DOMAIN check_states.rows :
          /\ check_states.rows[i].check_id = "c1"
          /\ check_states.rows[i].success
          /\ check_states.rows[i].occurred_at = 1
    /\ readyNow = 3

\* the hook request served last was accepted
HookAccepted ==
    /\ response # <<>>
    /\ response[1].path = "/api/hook"
    /\ response[1].code = 202

\* the duration a request asks for: duration, else duration_seconds, else
\* the configured duration
RequestedDuration(r) ==
    LET cfg == hookConfigs[r.hookID]
    IN  IF r.payload.Duration # "" THEN ParseDuration(r.payload.Duration).d
        ELSE IF r.payload.DurationSeconds.Set
        THEN r.payload.DurationSeconds.Value * Second
        ELSE IF cfg.Duration.Set THEN cfg.Duration.Duration ELSE 0

\* max_duration of the hook, 24h when not configured
ConfiguredMax(r) ==
    LET cfg == hookConfigs[r.hookID]
    IN  IF cfg.MaxDuration.Set THEN cfg.MaxDuration.Duration
        ELSE DefaultMaxDuration

Clamp(x, lo, hi) == IF x < lo THEN lo ELSE IF x > hi THEN hi ELSE x

\* C22: the stored active_until of an accepted hook invocation is
\* requested_at + d with d the requested duration clamped into
\* [0, max_duration], and it is omitted exactly when d is 0
C22_ActiveUntilClamped ==
    HookAccepted =>
        LET exec == response[1].exec[1]
            d == Clamp(RequestedDuration(request[1]), 0,
                       ConfiguredMax(request[1]))
        IN  /\ hooks[exec.ID].ActiveUntil = exec.ActiveUntil
            /\ exec.ActiveUntil = IF d = 0 THEN 0 ELSE exec.RequestedAt + d

\* C23: a request cannot relax until_first_success: the stored flag is true
\* whenever the configuration sets it, and otherwise it is the request's
\* value, false when the request has none
C23_UntilFirstSuccessNotRelaxed ==
    HookAccepted =>
        LET exec == response[1].exec[1]
            cfg == hookConfigs[request[1].hookID]
            asked == request[1].payload.UntilFirstSuccess
            stored == hooks[exec.ID].UntilFirstSuccess
        IN  IF cfg.UntilFirstSuccess THEN stored = TRUE
            ELSE stored = (asked = "true")

\* a request with until_first_success false was accepted for a hook whose
\* configuration sets it
C23_Witness ==
    /\ HookAccepted
    /\ hookConfigs[request[1].hookID].UntilFirstSuccess
    /\ request[1].payload.UntilFirstSuccess = "false"
    /\ hooks[response[1].exec[1].ID].UntilFirstSuccess

\* the immediate peer of request r is inside trusted_proxies
PeerTrusted(r) ==
    \E network \in trustedProxies : NetworkContains(network, r.RemoteAddr.host)

\* the leftmost part of X-Forwarded-For that is an address ("": none)
LeftmostValid(xff) ==
    LET valid == SelectSeq(xff, LAMBDA part : ParseIP(TrimSpace(part)) # "")
    IN  IF valid = <<>> THEN "" ELSE ParseIP(TrimSpace(valid[1]))

\* C24: the resolved client address is the leftmost valid X-Forwarded-For
\* address when the immediate peer is a trusted proxy (or trusted_proxies
\* is empty and the header is present), and the peer's address otherwise,
\* whatever headers an untrusted peer sends
C24_ResolvedClientIP ==
    (response # <<>> /\ response[1].path = "/api/hook") =>
        LET r == request[1]
            forwarded == LeftmostValid(r.XForwardedFor)
        IN  IF forwarded # "" /\ (trustedProxies = {} \/ PeerTrusted(r))
            THEN response[1].client_ip = forwarded
            ELSE response[1].client_ip = r.RemoteAddr.host

\* address ip is admitted by the allowlist entries (blank entries do not
\* count; no entry admits every address)
Admitted(entries, ip) ==
    LET listed == { TrimSpace(entries[i]) : i \in DOMAIN entries } \ {""}
    IN  \/ listed = {}
        \/ ip \in listed
        \/ \E network \in listed : NetworkContains(network, ip)

\* C25: a request whose resolved address is outside the global allowlist
\* gets 403 and is not served; a hook invocation whose resolved address is
\* outside the hook's own allowlist gets 403 too, and no hook execution row
\* is written in either case
C25_AllowlistsEnforced ==
    [][(served' = served + 1 /\ response'[1].path = "/api/hook") =>
          LET r == request'[1]
              ip == response'[1].client_ip
              denied ==
                  \/ \E cfg \in AccessConfigs :
                        /\ allowlist = NewAllowlist(cfg.Server.AllowedIPs)
                        /\ ~Admitted(cfg.Server.AllowedIPs, ip)
                  \/ /\ r.hookID \in DOMAIN hookConfigs
                     /\ ~Admitted(hookConfigs[r.hookID].AllowedIPs, ip)
          IN  denied => (response'[1].code = 403 /\ hooks' = hooks)
    ]_vars

\* the global allowlist admits the address, the hook's own does not
C25_Witness ==
    /\ response # <<>>
    /\ response[1].path = "/api/hook"
    /\ Allowed(allowlist, response[1].client_ip)
    /\ request[1].hookID = "pause-capped"
    /\ response[1].client_ip # ClientIP
    /\ response[1].code = 403
    /\ hooks = <<>>

\* the snapshot stored for a node (<<>>: none)
SnapshotOf(rows, nodeID) == LatestNodeMetrics(rows, nodeID).snapshot

\* the Content-Encoding of request r is gzip, identity or absent
Supported(r) ==
    ToLower(TrimSpace(r.ContentEncoding)) \in {"", "identity", "gzip"}

\* the server answers an ingest request for a node
IngestStep ==
    /\ served' = served + 1
    /\ response'[1].path = "/api/ingest"
    /\ TrimSpace(request'[1].nodeID) # ""

\* C26: an ingest request over 2 MiB gets 413, one with an unsupported
\* Content-Encoding or a payload that is empty after trimming gets 400, and
\* a rejected request leaves every snapshot as it was; an accepted request
\* gets 202 and replaces the snapshot of its node with the trimmed payload
\* and the server's time, leaving the other nodes' snapshots as they were
C26_IngestRejectsOrReplaces ==
    [][IngestStep =>
        LET r == request'[1]
            code == response'[1].code
            node == TrimSpace(r.nodeID)
            decoded == IF ToLower(TrimSpace(r.ContentEncoding)) = "gzip"
                       THEN Gunzip(r.Body.Raw)
                       ELSE [err |-> FALSE, data |-> r.Body.Raw]
        IN  /\ r.Body.Bytes > maxIngestPayloadBytes => code = 413
            /\ (r.Body.Bytes <= maxIngestPayloadBytes /\ ~Supported(r))
                  => code = 400
            /\ (r.Body.Bytes <= maxIngestPayloadBytes /\ Supported(r)
                  /\ ~decoded.err /\ TrimSpace(decoded.data) = "")
                  => code = 400
            /\ code # 202 => node_metrics' = node_metrics
            /\ code = 202 =>
                  /\ SnapshotOf(node_metrics', node) =
                        << [NodeID |-> node,
                            Payload |-> TrimSpace(decoded.data),
                            IngestedAt |-> readyNow,
                            SourceIP |-> response'[1].client_ip] >>
                  /\ \A other \in Nodes \ {node} :
                        SnapshotOf(node_metrics', other) =
                        SnapshotOf(node_metrics, other)
                  /\ Len(SelectSeq(node_metrics',
                                   LAMBDA row : row.node_id = node)) = 1
    ]_vars

\* a second accepted request has replaced the snapshot of node n1 while
\* node n2 keeps its own
C26_Witness ==
    /\ served = 2
    /\ response[1].path = "/api/ingest"
    /\ response[1].code = 202
    /\ request[1].nodeID = " n1 "
    /\ request[1].Body.Raw = " up 0 "
    /\ Len(node_metrics) = 2
    /\ SnapshotOf(node_metrics, "n1")[1].Payload = "up 0"
    /\ SnapshotOf(node_metrics, "n1")[1].IngestedAt = readyNow
    /\ SnapshotOf(node_metrics, "n2")[1].IngestedAt < readyNow

\* the interval the loop of a check is to tick at: the override, else the
\* service default, and 60 seconds when that is unset or zero
ExpectedInterval(c) ==
    LET interval == IF schedule[c].Set THEN schedule[c].Duration
                    ELSE defaults
    IN  IF interval <= 0 THEN 60 ELSE interval

\* C28: a started check loop runs with a ticker whose period is the
\* schedule override when set, otherwise the service default, and 60
\* seconds when the resulting interval is unset or zero; it has executed
\* the check at its start and at every tick since
C28_EffectiveInterval ==
    \A c \in TickChecks :
        (workerPc[c] # "start" \/ \E d \in TickChecks : workerPc[d] = "panic")
        => /\ workerPc[c] # "panic"
           /\ workerPc[c] = "loop" =>
                 /\ loopTicker[c].period = ExpectedInterval(c)
                 /\ \A t \in 0..wallClock :
                       (\E i \in DOMAIN executed[c] : executed[c][i] = t)
                       <=> /\ t >= loopTicker[c].since
                           /\ (t - loopTicker[c].since)
                                 % ExpectedInterval(c) = 0

\* C29: no fetchActiveHooks call that starts after a hook execution was
\* completed in the store by the worker returns that hook as active,
\* however the check loops interleave
C29_NoCompletedHookObserved ==
    [][\A c \in ExecChecks :
          fetchNo'[c] = fetchNo[c] + 1 =>
              \A i \in DOMAIN hooks :
                  hooks[i].Status = "completed" => hooks[i].ID \notin seen'[c]
    ]_vars

\* the scope of the evaluated hook as the switch reads it
ScopeOf(hook) == ToLower(TrimSpace(hook.Scope))

\* the targets of the evaluated hook, trimmed, blanks left out
TargetSet(hook) ==
    {TrimSpace(hook.TargetIDs[i]) : i \in DOMAIN hook.TargetIDs} \ {""}

\* the candidate is in the targets, or the targets hold "*"
InTargets(hook, candidate) ==
    \/ "*" \in TargetSet(hook)
    \/ (candidate # "" /\ candidate \in TargetSet(hook))

\* C30 as stated: a global hook matches any check whatever its
\* target_ids, a route hook matches exactly when the check's route is in
\* target_ids (or "*" is), every other scope exactly when the check's id is
C30_GlobalMatchesAnyCheck ==
    matched # <<>> =>
        matched[1] =
            CASE ScopeOf(matchHook) = "global" -> TRUE
              [] ScopeOf(matchHook) = "route" ->
                     InTargets(matchHook, matchCheck.Route)
              [] OTHER -> InTargets(matchHook, matchCheck.ID)

\* C30: a global hook matches any check when its target_ids is empty and
\* otherwise exactly when the check's id or "*" is in target_ids; a route
\* hook matches exactly when the check's route or "*" is in target_ids;
\* every other scope, the unspecified one included, matches exactly when
\* the check's id or "*" is in target_ids
C30_ScopeMatching ==
    matched # <<>> =>
        matched[1] =
            CASE ScopeOf(matchHook) = "global" ->
                     \/ Len(matchHook.TargetIDs) = 0
                     \/ InTargets(matchHook, matchCheck.ID)
              [] ScopeOf(matchHook) = "route" ->
                     InTargets(matchHook, matchCheck.Route)
              [] OTHER -> InTargets(matchHook, matchCheck.ID)

\* a global hook naming another check was evaluated and did not match
C30_Witness ==
    /\ matched = <<FALSE>>
    /\ ScopeOf(matchHook) = "global"
    /\ TargetSet(matchHook) = {"c2"}
    /\ matchCheck.ID = "c1"

\* the step of executeCheck of check c that leaves position p
Leaves(c, p) == execPc[c] = p /\ execPc'[c] # p

\* C31: an execution makes at most retries+1 attempts and none after a
\* successful one; it persists and feeds to the state machine one result,
\* that of its last attempt, after at least one attempt, and the history of
\* the check grows by that one entry
C31_OneResultPerExecution ==
    [][\A c \in ExecChecks :
          /\ execPc'[c] = "probing" => attempt'[c] <= Retries[c]
          /\ (Leaves(c, "probing") /\ result'[c]) =>
                 execPc'[c] \notin {"attempt", "probing"}
          /\ Leaves(c, "persist") =>
                 /\ attempt[c] + 1 \in 1..(Retries[c] + 1)
                 /\ persistedRun[c].run < runNo[c]
                 /\ persistedRun'[c].run = runNo[c]
                 /\ ~persistedRun'[c].err =>
                        /\ Len(check_states'.rows)
                              <= Len(check_states.rows) + 1
                        /\ \E i \in DOMAIN check_states'.rows :
                              /\ check_states'.rows[i].id
                                    = persistedRun'[c].row
                              /\ check_states'.rows[i].success = result[c]
                              /\ \A j \in DOMAIN check_states.rows :
                                    check_states.rows[j].id
                                       # persistedRun'[c].row
          /\ Leaves(c, "handle") =>
                 /\ updatedRun[c] < runNo[c]
                 /\ updatedRun'[c] = runNo[c]
                 /\ persistedRun[c].run = runNo[c]
                 /\ Len(state'[c].history) <= Len(state[c].history) + 1
                 /\ Last(state'[c].history) = ~result[c]
          /\ (execPc[c] \notin {"persist", "handle"}) =>
                 /\ persistedRun'[c] = persistedRun[c]
                 /\ updatedRun'[c] = updatedRun[c]
                 /\ state'[c].history = state[c].history
    ]_vars

\* the first attempt of an execution of c1 failed, the second succeeded,
\* and that result was persisted and fed to the state machine
C31_Witness ==
    /\ attempt["c1"] = 1
    /\ result["c1"]
    /\ persistedRun["c1"].run = runNo["c1"]
    /\ ~persistedRun["c1"].err
    /\ updatedRun["c1"] = runNo["c1"]
    /\ state["c1"].history = <<FALSE>>

\* the last step fed a result of check c to the state machine
Updated(c) == ev # <<>> /\ ev[1].check = c

\* the initial notifiers of check c were dispatched by the last step
InitialDispatched(c) ==
    \E k \in DOMAIN sent : sent[k].check = c /\ sent[k].kind = "initial"

\* C32: at a healthy->failing transition first_failure_at is the transition
\* time and stage state and initial_notified are those of a fresh episode
\* (set only by what the transition itself dispatches); first_failure_at
\* stays as it is at every later update of the episode; a stage not yet
\* dispatched in the episode is dispatched at an unpaused update at which
\* it is due, whatever the episodes before it dispatched
C32_EpisodeStartsFresh ==
    [][\A c \in Checks :
          /\ (~state[c].Failing /\ state'[c].Failing) =>
                 /\ state'[c].FirstFailure = now
                 /\ state'[c].InitialNotified => InitialDispatched(c)'
                 /\ \A i \in StageIdx(CheckConfig[c]) :
                       \/ state'[c].StageState[i] = NoStageState
                       \/ /\ Dispatched(c, i)'
                          /\ state'[c].StageState[i]
                                = [Sent |-> TRUE, LastSent |-> now]
          /\ (state[c].Failing /\ state'[c].Failing) =>
                 state'[c].FirstFailure = state[c].FirstFailure
          /\ (Updated(c)' /\ state'[c].Failing /\ ~ev'[1].paused) =>
                 \A i \in StageIdx(CheckConfig[c]) :
                     (/\ now - state'[c].FirstFailure >= StageOf(c, i).After
                      /\ ev'[1].before.stageCount[i] = 0)
                        => Dispatched(c, i)'
    ]_vars

\* a later update of a failing episode that began after time 3 dispatches
\* the one-shot stage of the route, first_failure_at still being its start
C32_Witness ==
    \E c \in Checks :
        /\ Updated(c)
        /\ ev[1].prevFailing /\ ev[1].nowFailing
        /\ state[c].FirstFailure >= 4
        /\ state[c].FirstFailure = ev[1].before.start
        /\ state[c].FirstFailure < now
        /\ Dispatched(c, 1)

\* C33: when RecordCheckRun fails the execution goes on to handleResult,
\* which appends the result to the history, settles failing from the
\* threshold and hands the notifications of a new failing episode to
\* dispatch as for a recorded run; after it the loop is back at its select
C33_PersistFailureNotFatal ==
    [][\A c \in ExecChecks :
          /\ (Leaves(c, "persist") /\ persistedRun'[c].err) =>
                 /\ execPc'[c] = "handle"
                 /\ calls'[c] = calls[c]
          /\ (Leaves(c, "handle") /\ persistedRun[c].err) =>
                 /\ persistedRun[c].run = runNo[c]
                 /\ updatedRun'[c] = runNo[c]
                 /\ Last(state'[c].history) = ~result[c]
                 /\ state'[c].Failing
                       <=> thresholdBreached(failureRatio[c],
                                             state'[c].history)
                 /\ (~state[c].Failing /\ state'[c].Failing
                       /\ hooks = <<>>
                       /\ Len(ExecCheckConfig[c].InitialNotifiers) > 0)
                       => /\ pending'[c] # <<>>
                          /\ state'[c].InitialNotified
          /\ (persistedRun'[c].err /\ execPc[c] # "none"
                /\ execPc'[c] = "none") =>
                 /\ loopPc'[c] = "loop"
                 /\ calls'[c] = 0
    ]_vars

\* the first run of c1 could not be recorded, was fed to the state machine
\* all the same, and the loop has started the second run
C33_Witness ==
    /\ runNo["c1"] = 2
    /\ persistedRun["c1"].run = 1
    /\ persistedRun["c1"].err
    /\ updatedRun["c1"] = 1
    /\ state["c1"].Failing
    /\ execPc["c1"] = "probing"

\* the assertions of the sets named by refs, in order
RECURSIVE SetAssertions(_, _)
SetAssertions(sets, refs) ==
    IF refs = <<>> THEN <<>>
    ELSE sets[Head(refs)] \o SetAssertions(sets, Tail(refs))

\* C34: New fails exactly when some check names an assertion set that is
\* not defined; when it succeeds the assertions of every check are those of
\* the sets it names, in order, followed by its inline assertions
C34_UnknownAssertionSetFatal ==
    callResult # <<>> =>
        LET cfg == callArgs.cfg
            unknown == \E i \in DOMAIN cfg.Checks :
                          \E k \in DOMAIN cfg.Checks[i].AssertionSets :
                              cfg.Checks[i].AssertionSets[k]
                                 \notin DOMAIN cfg.CheckAssertionSets
        IN  /\ callResult[1].err # "" <=> unknown
            /\ callResult[1].err = "" =>
                   \A i \in DOMAIN cfg.Checks :
                       callResult[1].checks[i].Assertions
                          = SetAssertions(cfg.CheckAssertionSets,
                                          cfg.Checks[i].AssertionSets)
                            \o cfg.Checks[i].Assertions

\* the samples of a payload: metric name and value
Samples(payload) ==
    CASE payload = "up 1" -> { <<"up", 1>> }
      [] payload = "up 0" -> { <<"up", 0>> }
      [] OTHER -> {}

\* the payload has a sample of the threshold's metric that meets it
ThresholdHolds(payload, th) ==
    \E sample \in Samples(payload) :
        /\ sample[1] = th.Name
        /\ \/ th.Op = "==" /\ sample[2] = th.Value
           \/ th.Op = "!=" /\ sample[2] # th.Value
           \/ th.Op = "<" /\ sample[2] < th.Value
           \/ th.Op = ">" /\ sample[2] > th.Value

\* the call was a metrics check with thresholds that found a snapshot
MetricsEvaluated ==
    /\ callResult # <<>>
    /\ callArgs.fn = "runMetrics"
    /\ Len(callArgs.Thresholds) > 0
    /\ callArgs.NodeID = "n1"
    /\ callArgs.snapshot # <<>>

\* C35: with max_age set and the snapshot's ingested_at zero or more than
\* max_age ago the result is a failure whose assertion results are the one
\* failed freshness assertion; otherwise the result succeeds iff every
\* configured threshold holds of the payload
C35_FreshnessBeforeThresholds ==
    MetricsEvaluated =>
        LET snap == callArgs.snapshot[1]
            res == callResult[1]
            old == /\ callArgs.MaxAge.Set
                   /\ \/ snap.IngestedAt = 0
                      \/ callArgs.now - snap.IngestedAt
                            > callArgs.MaxAge.Duration
        IN  IF old
            THEN /\ ~res.Success
                 /\ Len(res.AssertionResults) = 1
                 /\ res.AssertionResults[1].Kind = "freshness"
                 /\ ~res.AssertionResults[1].Passed
            ELSE /\ res.Success
                       <=> \A i \in DOMAIN callArgs.Thresholds :
                              ThresholdHolds(snap.Payload,
                                             callArgs.Thresholds[i])
                 /\ \A i \in DOMAIN res.AssertionResults :
                       res.AssertionResults[i].Kind # "freshness"

\* a snapshot older than max_age whose payload meets the threshold
C35_Witness ==
    /\ MetricsEvaluated
    /\ callArgs.MaxAge = [Set |-> TRUE, Duration |-> 2]
    /\ callArgs.snapshot[1] = [IngestedAt |-> 1, Payload |-> "up 1"]
    /\ callArgs.Thresholds = << [Name |-> "up", Op |-> "==", Value |-> 1] >>
    /\ ~callResult[1].Success
    /\ Len(callResult[1].AssertionResults) = 1

\* the line is a sample: a metric name, maybe labels, blanks and a value
IsSample(line) ==
    /\ TrimLeft(line) # <<>>
    /\ Head(TrimLeft(line)) = "m"
    /\ Last(line) = "1"
    /\ Len(TrimLeft(line)) > 1

\* the line has a label named check_id
HasCheckIDLabel(line) ==
    \E i \in DOMAIN line :
        line[i] \in {"check_id=\"abc\"", "check_id=\"old\""}

\* the sample line with the label added to its label set, or with a label
\* set of that label after its name
WithLabel(line, label) ==
    LET close == LastIndexOf(line, "}")
        name == Len(line) - Len(TrimLeft(line)) + 1
    IN  IF close # 0
        THEN SubSeq(line, 1, close - 1)
                \o (IF line[close - 1] = "{" THEN <<label>>
                    ELSE <<",", label>>)
                \o SubSeq(line, close, Len(line))
        ELSE SubSeq(line, 1, name) \o <<"{", label, "}">>
                \o SubSeq(line, name + 1, Len(line))

\* the call decorated a payload
Labelled == callResult # <<>> /\ callArgs.fn = "ensureCheckIDLabel"

\* C36: every sample line without a check_id label gets check_id="<id>",
\* every other line stays as it is, an empty id leaves the payload as it
\* is, and a second application changes nothing
C36_CheckIDLabelInjected ==
    Labelled =>
        LET payload == callArgs.payload
            id == TrimID(callArgs.checkID)
            out == callResult[1]
        IN  /\ id = "" => out = payload
            /\ id # "" =>
                   /\ Len(out) = Len(payload)
                   /\ \A i \in DOMAIN payload :
                         out[i] = IF IsSample(payload[i])
                                     /\ ~HasCheckIDLabel(payload[i])
                                  THEN WithLabel(payload[i],
                                                 "check_id=\"abc\"")
                                  ELSE payload[i]
            /\ Len(callResult) = 2 => callResult[2] = callResult[1]

\* the cache holds no hook and has not expired
EmptyCacheServed ==
    hookCache = <<>> /\ hookCacheExpiry # 0 /\ now < hookCacheExpiry

\* the query fails and the cache does not answer
QueryFails ==
    hookQueryErr /\ (hookCacheExpiry = 0 \/ now >= hookCacheExpiry)

\* C37: an update that asks the store for the active hooks while the query
\* fails observes none and caches that for CacheTTL; while that empty
\* answer is cached the store is not asked again and the notifications of
\* a failing check go out, whatever pause hooks the store holds
C37_FailedQueryFailsOpen ==
    [][\A c \in Checks :
          (Updated(c)' /\ fetches' # <<>>) =>
              /\ QueryFails =>
                    /\ hookCache' = <<>>
                    /\ hookCacheExpiry' = now + CacheTTL
              /\ EmptyCacheServed =>
                    /\ hookCache' = <<>>
                    /\ hookCacheExpiry' = hookCacheExpiry
                    /\ cacheLoadedAt' = cacheLoadedAt
              /\ (QueryFails \/ EmptyCacheServed) =>
                    /\ \A j \in DOMAIN fetches' : fetches'[j].ids = {}
                    /\ ~ev'[1].paused
                    /\ state'[c].Failing =>
                          /\ state'[c].InitialNotified
                          /\ ~(state[c].Failing /\ state[c].InitialNotified)
                                => InitialDispatched(c)'
                          /\ \A i \in StageIdx(CheckConfig[c]) :
                                (/\ now - state'[c].FirstFailure
                                       >= StageOf(c, i).After
                                 /\ ev'[1].before.stageCount[i] = 0)
                                   => Dispatched(c, i)'
    ]_vars

\* a stage of a failing check goes out although a matching pause hook,
\* inserted before the cache was filled, is active in the store: the cache
\* holds the empty answer of a failed query, and the store answers again
C37_Witness ==
    \E c \in Checks :
        /\ Updated(c)
        /\ Dispatched(c, 1)
        /\ ~hookQueryErr
        /\ hookCache = <<>>
        /\ cacheLoadedAt < now
        /\ \E i \in DOMAIN hooks :
              /\ ActivePause(hooks[i], c)
              /\ hooks[i].RequestedAt < cacheLoadedAt

\* the hook executions of the store that are active
ActiveRows(table) == {i \in DOMAIN table : table[i].Status = "active"}

\* C38: a call of activePauseHooks returns; it calls itself only from a
\* round that completed an active hook execution and invalidated the
\* cache, never more often than hook executions were inserted, and what it
\* returns are pause hooks of a snapshot with no resume hook whose
\* completion goes through
C38_MaterialiseTerminates ==
    /\ (callArgs.fn = "activePauseHooks") ~> (callResult # <<>>)
    /\ [][callArgs.fn = "activePauseHooks" =>
            /\ (callArgs'.fn = "activePauseHooks"
                  /\ callArgs'.rounds # callArgs.rounds) =>
                  /\ ActiveRows(hooks') # ActiveRows(hooks)
                  /\ ActiveRows(hooks') \subseteq ActiveRows(hooks)
                  /\ hookCache' = <<>>
                  /\ hookCacheExpiry' = 0
                  /\ callArgs'.rounds <= Len(hooks)
            /\ (callResult = <<>> /\ callResult' # <<>>) =>
                  /\ \A i \in DOMAIN callResult'[1].hooks :
                        callResult'[1].hooks[i].Kind = "pause_notifications"
                  /\ \A i \in DOMAIN callResult'[1].snapshot :
                        callResult'[1].snapshot[i].Kind
                            = "resume_notifications"
                          => callResult'[1].snapshot[i].ID \in completeErr
       ]_vars

\* a call that called itself twice has returned
C38_Witness ==
    /\ callArgs.fn = "activePauseHooks"
    /\ callArgs.rounds = 2
    /\ callResult # <<>>

\* C39: an execution that finds the context done at the head of an attempt
\* ends there, whatever attempts it made before: no run of it is or was
\* recorded, the state of its check is as it was, nothing is queued or
\* handed to a notifier; and rows and updates only ever come from an
\* execution under way, under its own number
C39_ShutdownAbandonsExecution ==
    [][\A c \in ExecChecks :
          /\ (cancelled /\ Leaves(c, "attempt")) =>
                /\ execPc'[c] = "none"
                /\ persistedRun[c].run < runNo[c]
                /\ updatedRun[c] < runNo[c]
                /\ persistedRun' = persistedRun
                /\ updatedRun' = updatedRun
                /\ runNo' = runNo
                /\ check_states' = check_states
                /\ inserted' = inserted
                /\ state' = state
                /\ pending' = pending
                /\ notifying' = notifying
                /\ lastNotify' = lastNotify
          /\ persistedRun'[c] # persistedRun[c] =>
                (execPc[c] = "persist" /\ persistedRun'[c].run = runNo[c])
          /\ updatedRun'[c] # updatedRun[c] =>
                (execPc[c] = "handle" /\ updatedRun'[c] = runNo[c])
    ]_vars

\* an execution was given up at its second attempt, after a failed probe
C39_Witness ==
    \E c \in ExecChecks :
        /\ cancelled
        /\ observed[c]
        /\ execPc[c] = "none"
        /\ attempt[c] = 1
        /\ ~result[c]
        /\ runNo[c] > 0
        /\ persistedRun[c].run < runNo[c]
        /\ updatedRun[c] < runNo[c]

\* the initial notifiers of check c are still to be sent when an
\* evaluation that finds it failing begins
InitialOwed(c) ==
    /\ Len(CheckConfig[c].InitialNotifiers) > 0
    /\ ~(state[c].Failing /\ state[c].InitialNotified)

\* C40: an evaluation that finds the check failing with its initial
\* notifiers still to be sent, at the transition or later in the episode,
\* observes the pause hooks first; if one matches the check nothing is
\* sent and InitialNotified stays false, otherwise the initial notifiers
\* are dispatched and InitialNotified is set
C40_SuppressedInitialDeferred ==
    [][\A c \in Checks :
          (Updated(c)' /\ state'[c].Failing /\ InitialOwed(c)) =>
              /\ obs' # <<>>
              /\ IF \E i \in DOMAIN hooks' :
                        /\ hooks'[i].ID \in obs'[1].returned
                        /\ hookMatchesCheck(hooks'[i], CheckConfig[c])
                 THEN /\ ~InitialDispatched(c)'
                      /\ ~state'[c].InitialNotified
                 ELSE /\ InitialDispatched(c)'
                      /\ state'[c].InitialNotified
    ]_vars

\* initial notifiers go out at an evaluation later than the transition of
\* the episode, for the first time in it
C40_Witness ==
    \E c \in Checks :
        /\ Updated(c)
        /\ ev[1].prevFailing
        /\ InitialDispatched(c)
        /\ state[c].Failing
        /\ state[c].FirstFailure < now
        /\ episode[c].initCount = 1
====
